------------------------------ MODULE MapSpec -------------------------------
(***************************************************************************)
(* What ConcurrentHashMap promises its callers: insert, get and erase each *)
(* take effect at one instant between their call and their return, on one  *)
(* map from keys to values.                                                *)
(***************************************************************************)
CONSTANTS Threads, Keys, Values,
          NoValue,   \* "the key is not there": the nullopt of get
          NoOp       \* the thread is not inside an operation

VARIABLES map,       \* the value of each key, or NoValue
          op,        \* the operation of each thread, NoOp outside
          answer     \* what it returns, once it has taken effect

vars == <<map, op, answer>>

Ops == [kind : {"insert"}, key : Keys, value : Values]
         \cup [kind : {"get", "erase"}, key : Keys, value : {NoValue}]

Pending == [set |-> FALSE, value |-> NoValue]
Answer(x) == [set |-> TRUE, value |-> x]

Init ==
  /\ map = [k \in Keys |-> NoValue]
  /\ op = [t \in Threads |-> NoOp]
  /\ answer = [t \in Threads |-> Pending]

Call(t, o) ==
  /\ op[t] = NoOp
  /\ op' = [op EXCEPT ![t] = o]
  /\ UNCHANGED <<map, answer>>

\* insert overwrites, and says whether the key is new; erase says whether
\* the key was there.
Effect(t) ==
  LET o == op[t]
  IN  /\ o # NoOp
      /\ ~answer[t].set
      /\ map' = CASE o.kind = "insert" -> [map EXCEPT ![o.key] = o.value]
                  [] o.kind = "erase"  -> [map EXCEPT ![o.key] = NoValue]
                  [] o.kind = "get"    -> map
      /\ answer' = [answer EXCEPT ![t] = Answer(
           CASE o.kind = "insert" -> map[o.key] = NoValue
             [] o.kind = "erase"  -> map[o.key] # NoValue
             [] o.kind = "get"    -> map[o.key])]
      /\ UNCHANGED op

Return(t) ==
  /\ answer[t].set
  /\ op' = [op EXCEPT ![t] = NoOp]
  /\ answer' = [answer EXCEPT ![t] = Pending]
  /\ UNCHANGED map

Next == \E t \in Threads :
          (\E o \in Ops : Call(t, o)) \/ Effect(t) \/ Return(t)

Spec == Init /\ [][Next]_vars
=============================================================================
