------------------------- MODULE OperationPromise -------------------------
(***************************************************************************)
(* What a program that commits through compatibility connections is         *)
(* promised: a transaction changes the shared rows at once, to the values   *)
(* it assigns; those of one identity take effect in the order of the        *)
(* program, and each once.  Calls, answers, retries and processes that die  *)
(* are no part of it.                                                       *)
(***************************************************************************)
EXTENDS Naturals, Sequences

CONSTANTS Rows, BaseValue, Operations, Identity, Program

VARIABLES
    value,   \* payload of every row
    had,     \* the payloads a row has had
    taken    \* the transactions that took effect, by identity

vars == <<value, had, taken>>

Init ==
    /\ value = BaseValue
    /\ had = [r \in Rows |-> {BaseValue[r]}]
    /\ taken = {}

\* Transaction t of an operation writes the rows W; the others it assigns have
\* had their values already.
TakeEffect(o, t, W) ==
    LET assigned == Program[o][t] IN
    /\ \A e \in taken : e.id = Identity[o] => e.tx < t
    /\ W # {}
    /\ \A r \in DOMAIN assigned \ W : assigned[r] \in had[r]
    /\ value' = [r \in Rows |-> IF r \in W THEN assigned[r] ELSE value[r]]
    /\ had' = [r \in Rows |-> IF r \in W THEN had[r] \cup {assigned[r]} ELSE had[r]]
    /\ taken' = taken \cup {[id |-> Identity[o], tx |-> t]}

Next ==
    \E o \in Operations : \E t \in 1..Len(Program[o]) :
      \E W \in SUBSET DOMAIN Program[o][t] : TakeEffect(o, t, W)

Spec == Init /\ [][Next]_vars
===========================================================================
