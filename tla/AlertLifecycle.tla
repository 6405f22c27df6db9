--------------------------- MODULE AlertLifecycle ---------------------------
(***************************************************************************)
(* What the abandoned-object detector promises the callers of update and   *)
(* process_frame, which get its events (the MQTT client passes on only     *)
(* object_abandoned).  An object has at most one open alert.               *)
(* object_abandoned opens it; object_claimed or object_removed closes it   *)
(* and never comes for an object without an open alert.  Replacing the     *)
(* region of interest withdraws open alerts without a closing event, as    *)
(* the code does.                                                          *)
(*                                                                         *)
(* published holds the events handed over by the frame in progress; it     *)
(* starts empty at every frame and may grow while the frame is processed.  *)
(***************************************************************************)
CONSTANT Objects

VARIABLES open, published

vars == <<open, published>>

Opening(S) == {[event_type |-> "object_abandoned", object_id |-> o] : o \in S}

Closing == [event_type : {"object_claimed", "object_removed"}, object_id : Objects]

Subjects(E) == {e.object_id : e \in E}

Init ==
    /\ open = {}
    /\ published = {}

(* A frame publishes openings for silent objects, and exactly one closing  *)
(* event for each alert that ends.                                         *)
Publish ==
    \E base \in {{}, published} :
    \E opened \in SUBSET (Objects \ open) :
    \E closed \in SUBSET open :
    \E closings \in SUBSET Closing :
        /\ Subjects(closings) = closed
        /\ \A e, f \in closings : e.object_id = f.object_id => e = f
        /\ open' = (open \cup opened) \ closed
        /\ published' = base \cup Opening(opened) \cup closings

(* The region of interest is replaced: every alert is withdrawn, whatever  *)
(* the frame in progress has published so far.                             *)
Withdraw ==
    /\ open' = {}
    /\ UNCHANGED published

Next == Publish \/ Withdraw

Spec == Init /\ [][Next]_vars

=============================================================================
