------------------------------ MODULE KeyStore ------------------------------
(***************************************************************************)
(* What the secure storage promises: a table of keys that changes one key   *)
(* at a time, by a write of a value somebody has asked for, or is cleared   *)
(* as a whole by an erase somebody has asked for.  Whatever happens below,  *)
(* no reader ever sees a key that is half written or another key's value.   *)
(***************************************************************************)
CONSTANTS Names, Values, NoValue

VARIABLES
  store,    \* the value of each key
  asked     \* the values that may have been asked for, NoValue by an erase

StoreType == store \in [Names -> Values \cup {NoValue}]

StoreInit == StoreType /\ \A n \in Names : asked[n] = {store[n]}

\* One key takes a value asked for it.
Put == \E n \in Names : \E v \in Values \cap asked[n] :
         store' = [store EXCEPT ![n] = v]

\* All keys disappear; an erase has been asked for.
Clear == /\ \A n \in Names : NoValue \in asked[n]
         /\ store' = [n \in Names |-> NoValue]

StoreSpec == StoreInit /\ [][Put \/ Clear]_store
=============================================================================
