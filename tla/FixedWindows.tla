----------------------------- MODULE FixedWindows -----------------------------
(* What a limiter with room for every key promises: a call is charged to     *)
(* one or two keys, it is let through exactly when each of them is below its *)
(* limit in its current window, and a window opens with its first call.      *)
EXTENDS Naturals

CONSTANTS Keys, LimitOf(_), Window

VARIABLES spent,    \* spent[k]: the calls in the window of k and the time it has left
          answer    \* the last call was let through

Unused == [count |-> 0, left |-> 0]

Init == spent = [k \in Keys |-> Unused] /\ answer = TRUE

Below(k) == spent[k].count < LimitOf(k)

Charged(e) == IF e = Unused THEN [count |-> 1, left |-> Window] ELSE [e EXCEPT !.count = @ + 1]

Call(keys) == /\ answer' = (\A k \in keys : Below(k))
              /\ spent' = IF answer' THEN [k \in Keys |-> IF k \in keys THEN Charged(spent[k]) ELSE spent[k]]
                          ELSE spent

Elapse(e) == IF e.left <= 1 THEN Unused ELSE [e EXCEPT !.left = @ - 1]

Tick == spent' = [k \in Keys |-> Elapse(spent[k])] /\ UNCHANGED answer

Next == Tick \/ \E j, k \in Keys : Call({j, k})

Spec == Init /\ [][Next]_<<spent, answer>>
===============================================================================
