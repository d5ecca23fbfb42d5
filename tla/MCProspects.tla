----------------------------- MODULE MCProspects -----------------------------
(***************************************************************************)
(* Three files with the same people: two organizations whose names have    *)
(* the same words in another order, and one written in two ways; and       *)
(* decisions, with retries, of a suggestion that is applied to one of the  *)
(* organizations and of one that names a contact.                          *)
(***************************************************************************)
EXTENDS Prospects, TLC

CONSTANTS nowak_law, nowaklaw, law_nowak, nowak, lawnowak

MCFirmOf == nowak_law :> nowak @@ nowaklaw :> nowak @@ law_nowak :> lawnowak
MCWords ==
  nowak_law :> {"nowak", "law"} @@ nowaklaw :> {"nowaklaw"} @@ law_nowak :> {"law", "nowak"}

Person(org, person, email, phone) ==
  [org |-> org, person |-> person, email |-> email, phone |-> phone]

Ada == {"ada", "berg"}
Eve == {"eve", "holm"}

MCRows ==
  { Person(nowak_law, Ada, None, None),
    Person(law_nowak, Ada, None, "555"),
    Person(nowaklaw, Eve, "eve@nowak.law", "555"),
    Person(law_nowak, Eve, "eve@nowak.law", None) }

Import(key, rows) == [op |-> "import", key |-> key, rows |-> rows]
Decide(key, s, decision) ==
  [op |-> "decide", key |-> key, suggestion |-> s, decision |-> decision]

MCKindOf == "encrypt" :> "SECURITY_CONCERN" @@ "ada decides" :> "DECISION_MAKER"
MCFirmAbout == "encrypt" :> nowak @@ "ada decides" :> nowak
MCPersonIn == "encrypt" :> {} @@ "ada decides" :> Ada

Imports ==
  { Import("i1", <<Person(nowak_law, Ada, None, None)>>),
    Import("i2", <<Person(law_nowak, Ada, None, "555"),
                   Person(nowaklaw, Eve, "eve@nowak.law", "555")>>),
    Import("i3", <<Person(law_nowak, Eve, "eve@nowak.law", None)>>) }

Decisions ==
  { Decide("d1", "encrypt", "APPROVE"),
    Decide("d2", "encrypt", "REJECT"),
    Decide("d3", "encrypt", "APPROVE"),
    Decide("d4", "ada decides", "APPROVE") }

Ahead == Import("i0", <<Person(nowak_law, Ada, None, None)>>)

MCRequests == Imports \cup Decisions \cup {Ahead}
MCScenarios == {Imports, Decisions \cup {Ahead}}

===============================================================================
