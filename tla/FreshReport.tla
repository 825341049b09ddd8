------------------------------ MODULE FreshReport ------------------------------
(***************************************************************************)
(* What the callers of an update may rely on.  A cached update takes over    *)
(* some report of the car; a refresh takes over one the car made after the   *)
(* call began, or raises.                                                    *)
(***************************************************************************)
EXTENDS Integers

CONSTANT Calls   \* the threads that update the vehicle

VARIABLES
  reports,   \* the latest report of the car
  taken,     \* the report the caller's data is from; 0 is "none"
  call,      \* what each thread is at
  since      \* the latest report when its refresh began

fvars == <<reports, taken, call, since>>

Init ==
  /\ reports \in {0, 1}
  /\ taken = 0
  /\ call = [c \in Calls |-> "none"]
  /\ since = [c \in Calls |-> 0]

CarReports ==
  /\ reports' \in Int /\ reports' > reports
  /\ UNCHANGED <<taken, call, since>>

Begin(c) ==
  /\ call[c] = "none"
  /\ \/ call' = [call EXCEPT ![c] = "cached"] /\ UNCHANGED since
     \/ /\ call' = [call EXCEPT ![c] = "refresh"]
        /\ since' = [since EXCEPT ![c] = reports]
  /\ UNCHANGED <<reports, taken>>

Ended(c) ==
  /\ call' = [call EXCEPT ![c] = "none"]
  /\ since' = [since EXCEPT ![c] = 0]

\* The report is taken over, as the last thing or not.
Take(c) ==
  /\ call[c] # "none"
  /\ taken' \in 0..reports
  /\ call[c] = "refresh" => taken' > since[c]
  /\ Ended(c) \/ UNCHANGED <<call, since>>
  /\ UNCHANGED reports

\* It returns, or it raises.
End(c) ==
  /\ call[c] # "none"
  /\ Ended(c)
  /\ UNCHANGED <<reports, taken>>

Next == CarReports \/ \E c \in Calls : Begin(c) \/ Take(c) \/ End(c)

Spec == Init /\ [][Next]_fvars
=============================================================================
