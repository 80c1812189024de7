----------------------------- MODULE MCDispatch -----------------------------
(* An instance of Dispatch for TLC.  Node n has two slots and sends its     *)
(* metadata, at first without a catalogue of task types or instances.  Node *)
(* nb polls as a whole, and only its leases and status reports register it; *)
(* its executor id looks like one of n's ("n-b").                           *)
EXTENDS Dispatch, TLC
CONSTANTS n, nb, jA, jB, s1, A, B, gpu
MCExtends == [w \in Worker |-> IF w = nb THEN {n} ELSE {}]
MCJobOf == [t \in Task |-> IF t = 2 THEN jB ELSE jA]
MCSessionOf == [j \in Job |-> s1]
MCTypeOf == [j \in Job |-> IF j = jA THEN A ELSE B]
MCTagsOf == [j \in Job |-> IF j = jA THEN {gpu} ELSE {}]
MCAdvertOf == [w \in Worker |->
                 IF w = n THEN {[types |-> {A}, tags |-> {gpu}, slots |-> 2],
                                [types |-> {}, tags |-> {gpu}, slots |-> 0]}
                 ELSE {}]
MCSizesOf == [w \in Worker |-> IF w = n THEN {2} ELSE {}]
MCExecutor == {<<n, 1>>, <<n, 2>>, <<nb, Itself>>}
=============================================================================
