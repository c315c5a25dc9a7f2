-------------------------------- MODULE Calls --------------------------------
(***************************************************************************)
(* What a client of a TNFS session is promised, without network, sequence  *)
(* numbers or retries: it makes one call at a time; the server executes a  *)
(* call at most once and never before an earlier one; an answer belongs to *)
(* the call that waits for it, and "ok" means that the call was executed.  *)
(* A call the client gave up on may still be executed later. (MOUNT calls  *)
(* are answered "mounted" and promise nothing more here.) A call that      *)
(* strays into a session other clients use is promised less: it may be     *)
(* executed again before the next one is, and get another answer.          *)
(***************************************************************************)
EXTENDS Naturals, Sequences

VARIABLES
    calls,      \* calls made so far; the current one has this number
    waiting,    \* the client waits for the answer to the current call
    executed,   \* numbers of the executed calls, in the order of execution
    strayed,    \* numbers of the calls that strayed
    answer      \* call and status of the last answer the client took

callVars == <<calls, waiting, executed, strayed, answer>>

Init ==
    /\ calls = 0
    /\ waiting = FALSE
    /\ executed = <<>>
    /\ strayed = {}
    /\ answer = [call |-> 0, status |-> "none"]

Call ==
    /\ ~ waiting
    /\ calls' = calls + 1
    /\ waiting' = TRUE
    /\ UNCHANGED <<executed, strayed, answer>>

Execute ==
    /\ \E n \in 1 .. calls :
          /\ \A k \in DOMAIN executed : executed[k] < n
          /\ executed' = Append(executed, n)
    /\ UNCHANGED <<calls, waiting, strayed, answer>>

Stray ==
    /\ \E n \in 1 .. calls :
          /\ strayed' = strayed \cup {n}
          /\ \/ UNCHANGED executed
             \/ /\ \A k \in DOMAIN executed : executed[k] <= n
                /\ executed' = Append(executed, n)
    /\ UNCHANGED <<calls, waiting, answer>>

Return ==
    /\ waiting
    /\ waiting' = FALSE
    /\ \/ /\ \E k \in DOMAIN executed : executed[k] = calls
          /\ answer' = [call |-> calls, status |-> "ok"]
       \/ \E status \in {"mounted", "badsession"} :
             answer' = [call |-> calls, status |-> status]
       \/ /\ calls \in strayed
          /\ answer' \in [call : 0 .. calls, status : {"ok", "mounted", "badsession"}]
    /\ UNCHANGED <<calls, executed, strayed>>

GiveUp ==
    /\ waiting
    /\ waiting' = FALSE
    /\ UNCHANGED <<calls, executed, strayed, answer>>

Next == Call \/ Execute \/ Stray \/ Return \/ GiveUp

Spec == Init /\ [][Next]_callVars
=============================================================================
