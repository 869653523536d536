--------------------------- MODULE ScannerService ---------------------------
(***************************************************************************)
(* What Scanner (src/litellm_trufflehog/scanner.py) promises the threads   *)
(* that share it: a scan answers with a report of that very scanner, and   *)
(* only if the scanner was open when the scan began; it raises only if the *)
(* scanner is closed by then, or cannot scan and is asked to, or the text  *)
(* broke the scan.  Nothing is asked of it for an empty text.              *)
(***************************************************************************)
CONSTANTS Objects, Threads, Nobody

VARIABLES status, \* status[o]: "absent", "open", "dead" (no native half), "closed"
          scan,   \* scan[t]: the scan thread t is in: [obj, text, open], or Nobody
          answer  \* answer[t]: what t's last scan came to: its report's scanner, or "raised"

vars == <<status, scan, answer>>

Texts == {"empty", "plain", "breaks"}

Init ==
    /\ status = [o \in Objects |-> "absent"]
    /\ scan = [t \in Threads |-> Nobody]
    /\ answer = [t \in Threads |-> Nobody]

Construct(o) ==
    /\ status[o] = "absent"
    /\ \E s \in {"open", "dead"} : status' = [status EXCEPT ![o] = s]
    /\ UNCHANGED <<scan, answer>>

Close(o) ==
    /\ status[o] \in {"open", "dead"}
    /\ status' = [status EXCEPT ![o] = "closed"]
    /\ UNCHANGED <<scan, answer>>

Begin(t, o) ==
    /\ scan[t] = Nobody /\ status[o] # "absent"
    /\ \E text \in Texts :
          scan' = [scan EXCEPT ![t] =
                     [obj |-> o, text |-> text, open |-> status[o] # "closed"]]
    /\ answer' = [answer EXCEPT ![t] = Nobody]
    /\ UNCHANGED status

Finish(t, a) ==
    /\ scan[t] # Nobody
    /\ answer' = [answer EXCEPT ![t] = a]
    /\ scan' = [scan EXCEPT ![t] = Nobody]
    /\ UNCHANGED status

Report(t) ==
    /\ Finish(t, scan[t].obj)
    /\ scan[t].open /\ scan[t].text # "breaks"
    /\ status[scan[t].obj] # "dead" \/ scan[t].text = "empty"

Raise(t) ==
    /\ Finish(t, "raised")
    /\ \/ scan[t].text = "breaks"
       \/ status[scan[t].obj] = "closed"
       \/ status[scan[t].obj] = "dead" /\ scan[t].text # "empty"

Next ==
    \/ \E o \in Objects : Construct(o) \/ Close(o)
    \/ \E t \in Threads : Report(t) \/ Raise(t) \/ \E o \in Objects : Begin(t, o)

Spec == Init /\ [][Next]_vars
=============================================================================
