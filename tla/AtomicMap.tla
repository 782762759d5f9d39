----------------------------- MODULE AtomicMap ------------------------------
(***************************************************************************)
(* What an index promises its callers: an insert takes effect at one       *)
(* moment of its call, and a lookup answers with a value its key had at    *)
(* some moment of the call.                                                *)
(***************************************************************************)
CONSTANTS Key, Value, Thread,
          Absent     \* the value of a key that was never inserted

VARIABLES map,
          put,       \* put[t]: the pair an insert of t has still to store, if any
          asked,     \* asked[t]: the key of a lookup of t with the values it has
                     \* had since the call, as pairs; empty outside lookups
          answer     \* answer[t]: what the last lookup of t returned

vars == <<map, put, asked, answer>>

Init ==
    /\ map = [k \in Key |-> Absent]
    /\ put = [t \in Thread |-> {}]
    /\ asked = [t \in Thread |-> {}]
    /\ answer = [t \in Thread |-> Absent]

\* Lookups that are under way when k gets the value v may answer v.
Heard(k, v) ==
    [t \in Thread |-> asked[t] \cup {p \in {<<k, v>>} : \E q \in asked[t] : q[1] = k}]

Put(t) ==
    /\ put[t] = {}
    /\ \E p \in put'[t] :
        /\ p \in Key \X Value
        /\ put' = [put EXCEPT ![t] = {p}]
    /\ UNCHANGED <<map, asked, answer>>

Store(t) ==
    \E p \in put[t] :
        /\ put' = [put EXCEPT ![t] = {}]
        /\ map' = [map EXCEPT ![p[1]] = p[2]]
        /\ asked' = Heard(p[1], p[2])
        /\ UNCHANGED answer

Ask(t) ==
    /\ asked[t] = {}
    /\ \E k \in Key : asked' = [asked EXCEPT ![t] = {<<k, map[k]>>}]
    /\ UNCHANGED <<map, put, answer>>

Answer(t) ==
    \E p \in asked[t] :
        /\ answer' = [answer EXCEPT ![t] = p[2]]
        /\ asked' = [asked EXCEPT ![t] = {}]
        /\ UNCHANGED <<map, put>>

Next == \E t \in Thread : Put(t) \/ Store(t) \/ Ask(t) \/ Answer(t)

Spec == Init /\ [][Next]_vars
=============================================================================
