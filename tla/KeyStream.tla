------------------------------ MODULE KeyStream ------------------------------
(***************************************************************************)
(* What a command loop expects of the reader it polls: input items reach   *)
(* the loop in the order they were typed, none twice and none left out,    *)
(* and the loop stops for one of three reasons: it was cancelled, an item  *)
(* told it to quit, or the input ended and every complete item in it was   *)
(* delivered.  An unterminated last line ("partial") never is.             *)
(***************************************************************************)
EXTENDS Naturals, Sequences

CONSTANTS Kinds,    \* the kinds of complete input item
          MaxKeys   \* bound on what is typed

VARIABLES typed,      \* the kind of every item typed so far
          hungUp,     \* the input has ended
          cancelled,  \* the loop's context was cancelled
          delivered,  \* how many items the loop has received
          open        \* the loop is still running

vars == <<typed, hungUp, cancelled, delivered, open>>

Init == /\ typed = <<>>
        /\ hungUp = FALSE
        /\ cancelled = FALSE
        /\ delivered = 0
        /\ open = TRUE

TypeKey(k) == /\ ~hungUp
              /\ Len(typed) < MaxKeys
              /\ typed' = Append(typed, k)
              /\ UNCHANGED <<hungUp, cancelled, delivered, open>>

HangUp == /\ ~hungUp
          /\ hungUp' = TRUE
          /\ \/ UNCHANGED typed
             \/ /\ Len(typed) < MaxKeys
                /\ typed' = Append(typed, "partial")
          /\ UNCHANGED <<cancelled, delivered, open>>

Cancel == /\ ~cancelled
          /\ cancelled' = TRUE
          /\ UNCHANGED <<typed, hungUp, delivered, open>>

\* The next item is received; only a quit item may end the loop.
Deliver == /\ open
           /\ delivered < Len(typed)
           /\ typed[delivered + 1] # "partial"
           /\ delivered' = delivered + 1
           /\ open' \in BOOLEAN
           /\ ~open' => typed[delivered + 1] = "quit"
           /\ UNCHANGED <<typed, hungUp, cancelled>>

Finish == /\ open
          /\ \/ cancelled
             \/ /\ hungUp
                /\ \A i \in 1..Len(typed) : i > delivered => typed[i] = "partial"
          /\ open' = FALSE
          /\ UNCHANGED <<typed, hungUp, cancelled, delivered>>

Next == \/ \E k \in Kinds : TypeKey(k)
        \/ HangUp
        \/ Cancel
        \/ Deliver
        \/ Finish

Spec == Init /\ [][Next]_vars

\* A running loop receives what was typed, and notices the end of its input.
Progress == WF_vars(Deliver \/ Finish)

LiveSpec == Spec /\ Progress
=============================================================================
