-------------------------- MODULE MCGeminiAttempts --------------------------
(***************************************************************************)
(* Small instances of GeminiAttempts: one user with two calls and another  *)
(* with one, so that both caps are reached. All three come on the last     *)
(* day, or only the first user's from the first on: a crowd needs no       *)
(* midnight, nor midnight a crowd. The report is that of the last day,     *)
(* about a day that calls reach from the one before and leave for the next.*)
(* Failures come on the last day, to calls of that day or begun before; of *)
(* two that are to cross a midnight neither begins there.                  *)
(***************************************************************************)
EXTENDS GeminiAttempts, TLC

CONSTANTS ana, bia, a1, a2, b1

ThreeCalls == (a1 :> ana) @@ (a2 :> ana) @@ (b1 :> bia)
OneCall    == (a1 :> ana)

Coming == {c \in Calls : At(c, "idle")}

MCInit ==
  /\ Init
  /\ \/ today = 1 /\ Coming = {a1, a2}
     \/ today = LastDay /\ Coming = Calls

MCNext ==
  /\ Next
  /\ report'.period \in {0, LastDay - 1}
  /\ faulty' # faulty => today = LastDay
  /\ today < LastDay /\ today' = LastDay => Coming = {}

MCSpec == MCInit /\ [][MCNext]_vars /\ Fairness

=============================================================================
