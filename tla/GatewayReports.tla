---------------------------- MODULE GatewayReports ----------------------------
(***************************************************************************)
(* The camera gateway: one loop over the frames of a stream that reports   *)
(* faults to the backend.  With YOLO it follows tracks and reports each    *)
(* once, unless a report of the same label overlaps it that is less than   *)
(* Window old; with the classifier alone it reports a fault label and then *)
(* keeps quiet about that label for Cooldown.                              *)
(* Source: inference/gateway.py                                            *)
(*                                                                         *)
(* The networks are choices: the tracks in a frame, and the smoothed       *)
(* place, label and confidence of each.  Time passes between frames and    *)
(* while a report is sent.                                                 *)
(***************************************************************************)
EXTENDS Naturals, FiniteSets

CONSTANTS Track, Label, Place,
          Fault,                  \* labels the classifier's mode reports
          Overlapping,            \* pairs of places with an IoU above 0.3
          Persist, Cleanup,       \* cfg.PERSIST_FRAMES, cfg.CLEANUP_FRAMES
          Window, Cooldown,       \* ten seconds, cfg.REPORT_COOLDOWN
          SendTime, FrameTime     \* how long a report and a frame may take

ASSUME GatewayAssumption ==
  /\ Fault \subseteq Label
  /\ Overlapping \subseteq Place \X Place
  /\ \A p, q \in Place : <<p, q>> \in Overlapping => <<q, p>> \in Overlapping
  /\ Persist \in Nat \ {0} /\ Cleanup \in Nat
  /\ Window \in Nat /\ Cooldown \in Nat
  /\ SendTime \subseteq Nat /\ FrameTime \subseteq Nat

VARIABLES
  mode,      \* tracking, classifying, or blank without a model
  phase,     \* reading, processing, stopped
  visible,   \* seen_this_frame
  todo,      \* of these, the ones still to be processed
  seen,      \* track_seen, up to Persist; 0: not in the table
  lost,      \* track_lost
  reported,  \* reported_tracks
  recent,    \* recently_reported, with the time since each timestamp
  quiet,     \* time since last_reported_time, up to Cooldown
  acked,     \* history: reports acknowledged since Spacing, by the time since
             \* the decision to send them
  settled    \* history: how often a track was acknowledged or found covered

tables == <<seen, lost, reported>>
vars == <<mode, phase, visible, todo, tables, recent, quiet, acked, settled>>

Known == {t \in Track : seen[t] > 0}
Spacing == IF mode = "classifying" THEN Cooldown ELSE Window
Report == [label : Label, place : Place, age : Nat]

TypeOK ==
  /\ mode \in {"tracking", "classifying", "blank"}
  /\ phase \in {"reading", "processing", "stopped"}
  /\ visible \subseteq Track /\ todo \subseteq visible
  /\ seen \in [Track -> 0..Persist]
  /\ lost \in [Track -> 0..Cleanup]
  /\ reported \subseteq Known
  /\ recent \subseteq Report
  /\ quiet \in [Label -> 0..Cooldown]
  /\ \A r \in acked : r.label \in Label /\ r.age \in Nat
  /\ settled \in [Track -> 0..2]
  /\ phase = "processing" /\ mode = "tracking" => visible \ todo \subseteq Known
  /\ \A t \in Track \ Known : lost[t] = 0 /\ settled[t] = 0

Init ==
  /\ mode \in {"tracking", "classifying", "blank"}
  /\ phase = "reading" /\ visible = {} /\ todo = {}
  /\ seen = [t \in Track |-> 0] /\ lost = [t \in Track |-> 0]
  /\ reported = {} /\ recent = {}
  /\ quiet = [l \in Label |-> Cooldown]
  /\ acked = {} /\ settled = [t \in Track |-> 0]

Least(a, b) == IF a <= b THEN a ELSE b

(* Mutant: the window is a unit too short. *)
AgedShort(reports, d) ==
  {[r EXCEPT !.age = @ + d] : r \in {s \in reports : s.age + d + 1 < Window}}

(* A report leaves recently_reported when the list is next looked at, if   *)
(* it is Window old by then: nobody sees it in between.                    *)
Aged(reports, d) ==
  {[r EXCEPT !.age = @ + d] : r \in {s \in reports : s.age + d < Window}}

(* The acknowledged reports that were decided on less than Spacing ago. *)
Recorded(reports, d) ==
  {[r EXCEPT !.age = @ + d] : r \in {s \in reports : s.age + d < Spacing}}

Quieter(d) == [l \in Label |-> Least(quiet[l] + d, Cooldown)]

-------------------------------------------------------------------------------
(* The loop *)

ReadFrame ==
  /\ phase = "reading"
  /\ phase' = "processing"
  /\ visible' \in IF mode = "tracking" THEN SUBSET Track ELSE {{}}
  /\ todo' = visible'
  /\ \E d \in FrameTime :
       /\ recent' = Aged(recent, d)
       /\ quiet' = Quieter(d)
       /\ acked' = Recorded(acked, d)
  /\ UNCHANGED <<mode, tables, settled>>

(* No frame is left, or somebody pressed q. *)
Stop ==
  /\ phase = "reading"
  /\ phase' = "stopped"
  /\ UNCHANGED <<mode, visible, todo, tables, recent, quiet, acked, settled>>

-------------------------------------------------------------------------------
(* One track in a frame *)

Count(t) ==
  /\ phase = "processing" /\ t \in todo
  /\ todo' = todo \ {t}
  /\ seen' = [seen EXCEPT ![t] = Least(@ + 1, Persist)]
  /\ lost' = [lost EXCEPT ![t] = 0]
  /\ UNCHANGED <<mode, phase, visible, quiet>>

(* Mutant: a report is due in one frame of a track's life only. *)
DueOnce(t) == t \notin reported /\ seen[t] + 1 = Persist

Due(t) == t \notin reported /\ seen[t] + 1 >= Persist

Duplicates(reports, p, l) == {r \in reports : r.label = l /\ <<p, r.place>> \in Overlapping}

Settle(t) == [settled EXCEPT ![t] = Least(@ + 1, 2)]

TrackOnly(t) ==
  /\ ~Due(t)
  /\ Count(t)
  /\ UNCHANGED <<reported, recent, acked, settled>>

(* The average confidence is below MIN_REPORT_CONF. *)
Doubt(t) ==
  /\ Due(t) /\ Count(t)
  /\ UNCHANGED <<reported, recent, acked, settled>>

FindCovered(t, p, l) ==
  /\ Due(t) /\ Count(t)
  /\ Duplicates(recent, p, l) # {}
  /\ reported' = reported \cup {t}
  /\ settled' = IF Duplicates(acked, p, l) # {} THEN Settle(t) ELSE settled
  /\ UNCHANGED <<recent, acked>>

(* Mutant: the outcome of the report is not looked at. *)
SendAssumed(t, p, l, d) ==
  /\ Due(t) /\ Count(t)
  /\ Duplicates(recent, p, l) = {}
  /\ reported' = reported \cup {t}
  /\ recent' = Aged(recent \cup {[label |-> l, place |-> p, age |-> 0]}, d)
  /\ acked' = Recorded(acked, d)
  /\ UNCHANGED settled

(* send_fault_to_backend returned True after a time d: the timestamp is    *)
(* that of the decision.                                                   *)
SendAcked(t, p, l, d) ==
  /\ Due(t) /\ Count(t)
  /\ Duplicates(recent, p, l) = {}
  /\ reported' = reported \cup {t}
  /\ recent' = Aged(recent \cup {[label |-> l, place |-> p, age |-> 0]}, d)
  /\ acked' = Recorded(acked \cup {[label |-> l, place |-> p, track |-> t, age |-> 0]}, d)
  /\ settled' = Settle(t)

(* It returned False, whatever the backend made of the post. *)
SendFails(t, p, l, d) ==
  /\ Due(t) /\ Count(t)
  /\ Duplicates(recent, p, l) = {}
  /\ recent' = Aged(recent, d)
  /\ acked' = Recorded(acked, d)
  /\ UNCHANGED <<reported, settled>>

Process(t) ==
  \/ TrackOnly(t) \/ Doubt(t)
  \/ \E p \in Place, l \in Label :
       \/ FindCovered(t, p, l)
       \/ \E d \in SendTime : SendAcked(t, p, l, d) \/ SendFails(t, p, l, d)

-------------------------------------------------------------------------------
(* The end of a frame *)

Missed(t) == IF t \in Known \ visible THEN lost[t] + 1 ELSE lost[t]

(* Mutant: a forgotten track leaves its mark in reported_tracks. *)
ForgetUnmarked(gone) ==
  /\ seen' = [t \in Track |-> IF t \in gone THEN 0 ELSE seen[t]]
  /\ lost' = [t \in Track |-> IF t \in gone THEN 0 ELSE Missed(t)]
  /\ settled' = [t \in Track |-> IF t \in gone THEN 0 ELSE settled[t]]
  /\ UNCHANGED reported

Forget(gone) ==
  /\ seen' = [t \in Track |-> IF t \in gone THEN 0 ELSE seen[t]]
  /\ lost' = [t \in Track |-> IF t \in gone THEN 0 ELSE Missed(t)]
  /\ settled' = [t \in Track |-> IF t \in gone THEN 0 ELSE settled[t]]
  /\ reported' = reported \ gone

EndTracking ==
  /\ phase = "processing" /\ mode = "tracking" /\ todo = {}
  /\ phase' = "reading"
  /\ visible' = {}
  /\ Forget({t \in Known : Missed(t) > Cleanup})
  /\ UNCHANGED <<mode, todo, recent, quiet, acked>>

-------------------------------------------------------------------------------
(* The classifier alone *)

ClassifyQuietly ==
  /\ phase = "processing"
  /\ \/ mode = "blank"
     \/ mode = "classifying" /\ \E l \in Label : l \notin Fault \/ quiet[l] < Cooldown
  /\ phase' = "reading"
  /\ UNCHANGED <<mode, visible, todo, tables, recent, quiet, acked, settled>>

Classify(l, ok, d) ==
  /\ phase = "processing" /\ mode = "classifying"
  /\ l \in Fault /\ quiet[l] = Cooldown
  /\ phase' = "reading"
  /\ quiet' = [Quieter(d) EXCEPT ![l] = IF ok THEN Least(d, Cooldown) ELSE @]
  /\ acked' = Recorded(IF ok THEN acked \cup {[label |-> l, age |-> 0]} ELSE acked, d)
  /\ UNCHANGED <<mode, visible, todo, tables, recent, settled>>

Step ==
  \/ ReadFrame \/ EndTracking \/ ClassifyQuietly
  \/ \E t \in Track : Process(t)
  \/ \E l \in Label, ok \in BOOLEAN, d \in SendTime : Classify(l, ok, d)

Next == Step \/ Stop

Spec == Init /\ [][Next]_vars

(* The loop runs on until it is stopped; of a track that is due for a      *)
(* report again and again, the confidence is high enough at last and then  *)
(* a report covers it or the backend acknowledges its own.                 *)
Resolve(t) ==
  \E p \in Place, l \in Label :
    FindCovered(t, p, l) \/ \E d \in SendTime : SendAcked(t, p, l, d)

FairSpec ==
  Spec /\ WF_vars(Step) /\ \A t \in Track : SF_vars(Resolve(t))
-------------------------------------------------------------------------------
(***************************************************************************)
(* A track is marked as reported exactly if the backend acknowledged one   *)
(* report in its present life, or one of the same label that overlapped it *)
(* and was less than Window old when the track was passed over.  A failed  *)
(* report marks nothing, a life has no two reports, and a mark does not    *)
(* outlive its track (gateway.py:251-284, 315-321).                        *)
(***************************************************************************)
SettledOnce ==
  \A t \in Track : settled[t] = IF t \in reported THEN 1 ELSE 0

(***************************************************************************)
(* Of the acknowledged reports that were decided on within the last Window *)
(* no two have the same label and overlap, of whatever tracks or lives of  *)
(* a track; without tracking, no two within Cooldown have the same label.  *)
(* Sending takes time, but it is the decision that counts                  *)
(* (gateway.py:205-209, 256-280).                                          *)
(***************************************************************************)
Conflict(a, b) ==
  /\ a.label = b.label
  /\ mode = "tracking" => <<a.place, b.place>> \in Overlapping

ReportsSpaced ==
  \A a, b \in acked : a # b => ~Conflict(a, b)

(***************************************************************************)
(* A track that stays in view is reported, or found covered, at last:      *)
(* after a frame in which it was doubted or its report failed it is due    *)
(* again, however many tracks and failures come in between                 *)
(* (gateway.py:251-279).                                                   *)
(***************************************************************************)
InView(t) == t \in Known /\ lost[t] = 0 /\ phase # "stopped"

LastingFaultReported ==
  \A t \in Track : <>[]InView(t) => <>(t \in reported)
===============================================================================
