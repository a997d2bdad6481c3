---------------------------- MODULE GatewayProofs ----------------------------
(***************************************************************************)
(* Proofs about GatewayReports, for any tracks, labels and places, any     *)
(* overlap of places, any limits and any times: type correctness,          *)
(* SettledOnce and ReportsSpaced.                                          *)
(*                                                                         *)
(* Both properties compare what the loop remembers with what the backend   *)
(* acknowledged.  Memory says that these agree: with tracks the entries of *)
(* recently_reported are the acknowledged reports less than Window old,    *)
(* and without, the quiet of a label is the age of its last report.        *)
(***************************************************************************)
EXTENDS GatewayReports, TLAPS

TrackReport == [label : Label, place : Place, track : Track, age : Nat]
LabelReport == [label : Label, age : Nat]

Same(r, a) == r.label = a.label /\ r.place = a.place /\ r.age = a.age

(* What the loop knows of the acknowledged reports. *)
Memory ==
  /\ mode = "tracking" =>
       /\ acked \subseteq TrackReport
       /\ \A r \in recent : \E a \in acked : Same(r, a)
       /\ \A a \in acked : \E r \in recent : Same(r, a)
  /\ mode # "tracking" =>
       /\ acked \subseteq LabelReport
       /\ \A a \in acked : quiet[a.label] = a.age /\ a.age < Cooldown
       /\ recent = {} /\ visible = {}
  /\ mode = "blank" => acked = {}

IInv == TypeOK /\ Memory /\ SettledOnce /\ ReportsSpaced

-------------------------------------------------------------------------------
(* Lemmas on the passage of time *)

(* A report that has grown older is otherwise the same. *)
LEMMA OlderReport ==
  ASSUME NEW r \in Report, NEW d \in Nat
  PROVE  LET x == [r EXCEPT !.age = @ + d] IN
         x \in Report /\ x.label = r.label /\ x.place = r.place /\ x.age = r.age + d
  BY DEF Report

LEMMA OlderTrackReport ==
  ASSUME NEW r \in TrackReport, NEW d \in Nat
  PROVE  LET x == [r EXCEPT !.age = @ + d] IN
         x \in TrackReport /\ x.label = r.label /\ x.place = r.place /\ x.age = r.age + d
  BY DEF TrackReport

LEMMA OlderLabelReport ==
  ASSUME NEW r \in LabelReport, NEW d \in Nat
  PROVE  LET x == [r EXCEPT !.age = @ + d] IN
         x \in LabelReport /\ x.label = r.label /\ x.age = r.age + d
  BY DEF LabelReport

(* What is left of recently_reported are reports, each with one it came    *)
(* from; no report young enough is gone.                                   *)
LEMMA AgedReports ==
  ASSUME NEW R, R \subseteq Report, NEW d \in Nat
  PROVE  /\ Aged(R, d) \subseteq Report
         /\ \A x \in Aged(R, d) : \E r \in R :
              /\ r.age + d < Window
              /\ x.label = r.label /\ x.place = r.place /\ x.age = r.age + d
         /\ \A r \in R : r.age + d < Window => \E x \in Aged(R, d) :
              x.label = r.label /\ x.place = r.place /\ x.age = r.age + d
<1>1. \A x \in Aged(R, d) : \E r \in R :
        r.age + d < Window /\ x = [r EXCEPT !.age = @ + d]
  BY DEF Aged
<1>2. \A r \in R : r.age + d < Window => [r EXCEPT !.age = @ + d] \in Aged(R, d)
  BY DEF Aged
<1>3. \A r \in R : LET x == [r EXCEPT !.age = @ + d] IN
        x \in Report /\ x.label = r.label /\ x.place = r.place /\ x.age = r.age + d
  BY OlderReport
<1> QED
  BY <1>1, <1>2, <1>3

(* The same of the acknowledged reports, with tracks. *)
LEMMA RecordedTracks ==
  ASSUME NEW A, A \subseteq TrackReport, NEW d \in Nat
  PROVE  /\ Recorded(A, d) \subseteq TrackReport
         /\ \A x \in Recorded(A, d) : \E a \in A :
              /\ a.age + d < Spacing
              /\ x = [a EXCEPT !.age = @ + d]
              /\ x.label = a.label /\ x.place = a.place /\ x.age = a.age + d
         /\ \A a \in A : a.age + d < Spacing => \E x \in Recorded(A, d) :
              x.label = a.label /\ x.place = a.place /\ x.age = a.age + d
<1>1. \A x \in Recorded(A, d) : \E a \in A :
        a.age + d < Spacing /\ x = [a EXCEPT !.age = @ + d]
  BY DEF Recorded
<1>2. \A a \in A : a.age + d < Spacing => [a EXCEPT !.age = @ + d] \in Recorded(A, d)
  BY DEF Recorded
<1>3. \A a \in A : LET x == [a EXCEPT !.age = @ + d] IN
        x \in TrackReport /\ x.label = a.label /\ x.place = a.place /\ x.age = a.age + d
  BY OlderTrackReport
<1> QED
  BY <1>1, <1>2, <1>3

(* The same of the acknowledged reports, without. *)
LEMMA RecordedLabels ==
  ASSUME NEW A, A \subseteq LabelReport, NEW d \in Nat
  PROVE  /\ Recorded(A, d) \subseteq LabelReport
         /\ \A x \in Recorded(A, d) : \E a \in A :
              /\ a.age + d < Spacing
              /\ x = [a EXCEPT !.age = @ + d]
              /\ x.label = a.label /\ x.age = a.age + d
<1>1. \A x \in Recorded(A, d) : \E a \in A :
        a.age + d < Spacing /\ x = [a EXCEPT !.age = @ + d]
  BY DEF Recorded
<1>2. \A a \in A : LET x == [a EXCEPT !.age = @ + d] IN
        x \in LabelReport /\ x.label = a.label /\ x.age = a.age + d
  BY OlderLabelReport
<1> QED
  BY <1>1, <1>2

(* With tracks: two sets that agree still agree when time has passed. *)
LEMMA AgreementAges ==
  ASSUME mode = "tracking",
         NEW R, R \subseteq Report, NEW A, A \subseteq TrackReport, NEW d \in Nat,
         \A r \in R : \E a \in A : Same(r, a),
         \A a \in A : \E r \in R : Same(r, a)
  PROVE  /\ \A r \in Aged(R, d) : \E a \in Recorded(A, d) : Same(r, a)
         /\ \A a \in Recorded(A, d) : \E r \in Aged(R, d) : Same(r, a)
<1>1. Spacing = Window
  BY DEF Spacing
<1>2. ASSUME NEW r \in Aged(R, d)
      PROVE  \E a \in Recorded(A, d) : Same(r, a)
  <2>1. PICK s \in R : /\ s.age + d < Window
                       /\ r.label = s.label /\ r.place = s.place /\ r.age = s.age + d
    BY <1>2, AgedReports
  <2>2. PICK b \in A : Same(s, b)
    OBVIOUS
  <2>3. b.age + d < Spacing
    BY <1>1, <2>1, <2>2 DEF Same
  <2>4. PICK a \in Recorded(A, d) :
          a.label = b.label /\ a.place = b.place /\ a.age = b.age + d
    BY <2>3, RecordedTracks
  <2> QED
    BY <2>1, <2>2, <2>4 DEF Same
<1>3. ASSUME NEW a \in Recorded(A, d)
      PROVE  \E r \in Aged(R, d) : Same(r, a)
  <2>1. PICK b \in A : /\ b.age + d < Spacing
                       /\ a.label = b.label /\ a.place = b.place /\ a.age = b.age + d
    BY <1>3, RecordedTracks
  <2>2. PICK s \in R : Same(s, b)
    OBVIOUS
  <2>3. s.age + d < Window
    BY <1>1, <2>1, <2>2 DEF Same
  <2>4. PICK r \in Aged(R, d) :
          r.label = s.label /\ r.place = s.place /\ r.age = s.age + d
    BY <2>3, AgedReports
  <2> QED
    BY <2>1, <2>2, <2>4 DEF Same
<1> QED
  BY <1>2, <1>3
(* Reports that do not conflict do not conflict when they are older. *)
LEMMA SpacingAges ==
  ASSUME NEW A, NEW d \in Nat,
         \/ mode = "tracking" /\ A \subseteq TrackReport
         \/ mode # "tracking" /\ A \subseteq LabelReport,
         \A a, b \in A : a # b => ~Conflict(a, b)
  PROVE  \A x, y \in Recorded(A, d) : x # y => ~Conflict(x, y)
<1> SUFFICES ASSUME NEW x \in Recorded(A, d), NEW y \in Recorded(A, d), x # y
             PROVE  ~Conflict(x, y)
  OBVIOUS
<1>1. CASE mode = "tracking" /\ A \subseteq TrackReport
  <2>1. PICK a \in A : /\ x = [a EXCEPT !.age = @ + d]
                       /\ x.label = a.label /\ x.place = a.place
    BY <1>1, RecordedTracks
  <2>2. PICK b \in A : /\ y = [b EXCEPT !.age = @ + d]
                       /\ y.label = b.label /\ y.place = b.place
    BY <1>1, RecordedTracks
  <2>3. a # b
    BY <2>1, <2>2
  <2> QED
    BY <2>1, <2>2, <2>3 DEF Conflict
<1>2. CASE mode # "tracking" /\ A \subseteq LabelReport
  <2>1. PICK a \in A : x = [a EXCEPT !.age = @ + d] /\ x.label = a.label
    BY <1>2, RecordedLabels
  <2>2. PICK b \in A : y = [b EXCEPT !.age = @ + d] /\ y.label = b.label
    BY <1>2, RecordedLabels
  <2>3. a # b
    BY <2>1, <2>2
  <2> QED
    BY <1>2, <2>1, <2>2, <2>3 DEF Conflict
<1> QED
  BY <1>1, <1>2

-------------------------------------------------------------------------------
(* The actions on a track *)

(* Counting a track makes it known and disturbs no other. *)
LEMMA CountKnows ==
  ASSUME TypeOK, NEW t \in Track, Count(t)
  PROVE  /\ t \in visible /\ phase = "processing" /\ phase' = phase
         /\ mode' = mode /\ visible' = visible /\ quiet' = quiet
         /\ todo' \subseteq visible'
         /\ seen' \in [Track -> 0..Persist] /\ lost' \in [Track -> 0..Cleanup]
         /\ Known' = Known \cup {t}
         /\ mode = "tracking" => visible' \ todo' \subseteq Known'
         /\ \A u \in Track \ Known' : lost'[u] = 0
<1>1. /\ t \in visible /\ phase = "processing" /\ phase' = phase
      /\ mode' = mode /\ visible' = visible /\ quiet' = quiet
      /\ todo' = todo \ {t}
  BY DEF Count, TypeOK
<1>2. todo' \subseteq visible'
  BY <1>1 DEF TypeOK
<1>3. seen' \in [Track -> 0..Persist] /\ lost' \in [Track -> 0..Cleanup]
  BY GatewayAssumption DEF Count, TypeOK, Least, GatewayAssumption
<1>4. Known' = Known \cup {t}
  BY GatewayAssumption DEF Count, TypeOK, Least, GatewayAssumption, Known
<1>5. mode = "tracking" => visible' \ todo' \subseteq Known'
  BY <1>1, <1>4 DEF TypeOK
<1>6. \A u \in Track \ Known' : lost'[u] = 0
  BY <1>4 DEF Count, TypeOK
<1> QED
  BY <1>1, <1>2, <1>3, <1>4, <1>5, <1>6

(* A step that counts a track is type-correct if it leaves good records. *)
LEMMA CountTypeOK ==
  ASSUME TypeOK, NEW t \in Track, Count(t),
         reported' \subseteq reported \cup {t},
         recent' \subseteq Report,
         \A r \in acked' : r.label \in Label /\ r.age \in Nat,
         settled' = settled \/ settled' = Settle(t)
  PROVE  TypeOK'
<1>1. settled' \in [Track -> 0..2] /\ \A u \in Track \ {t} : settled'[u] = settled[u]
  BY DEF TypeOK, Settle, Least
<1>2. reported' \subseteq Known'
  BY CountKnows DEF TypeOK
<1>3. \A u \in Track \ Known' : lost'[u] = 0 /\ settled'[u] = 0
  BY <1>1, CountKnows DEF TypeOK
<1> QED
  BY <1>1, <1>2, <1>3, CountKnows DEF TypeOK

(* Tracks are processed in the tracking mode only. *)
LEMMA ProcessTracks ==
  ASSUME IInv, NEW t \in Track, Count(t)
  PROVE  mode = "tracking" /\ mode' = "tracking"
  BY CountKnows DEF IInv, Memory

(* TrackOnly and Doubt change none of the records. *)
LEMMA CountPreserves ==
  ASSUME IInv, NEW t \in Track, Count(t),
         UNCHANGED <<reported, recent, acked, settled>>
  PROVE  IInv'
<1>1. TypeOK'
  BY CountTypeOK DEF IInv, TypeOK
<1>2. Memory'
  BY ProcessTracks DEF IInv, Memory, Same
<1>3. SettledOnce'
  BY DEF IInv, SettledOnce
<1>4. ReportsSpaced'
  BY ProcessTracks DEF IInv, ReportsSpaced, Conflict
<1> QED
  BY <1>1, <1>2, <1>3, <1>4 DEF IInv

(* The report that covers a track is one the backend acknowledged. *)
LEMMA FindCoveredPreserves ==
  ASSUME IInv, NEW t \in Track, NEW p \in Place, NEW l \in Label, FindCovered(t, p, l)
  PROVE  IInv'
<1>1. /\ Count(t) /\ t \notin reported
      /\ recent' = recent /\ acked' = acked
      /\ reported' = reported \cup {t}
  BY DEF FindCovered, Due
<1>2. settled' = Settle(t)
  <2>1. PICK r \in recent : r.label = l /\ <<p, r.place>> \in Overlapping
    BY DEF FindCovered, Duplicates
  <2>2. PICK a \in acked : Same(r, a)
    BY <1>1, <2>1, ProcessTracks DEF IInv, Memory
  <2>3. a \in Duplicates(acked, p, l)
    BY <2>1, <2>2 DEF Duplicates, Same
  <2> QED
    BY <2>3 DEF FindCovered
<1>3. TypeOK'
  BY <1>1, <1>2, CountTypeOK DEF IInv, TypeOK
<1>4. Memory'
  BY <1>1, ProcessTracks DEF IInv, Memory, Same
<1>5. SettledOnce'
  BY <1>1, <1>2 DEF IInv, SettledOnce, Settle, Least, TypeOK
<1>6. ReportsSpaced'
  BY <1>1, ProcessTracks DEF IInv, ReportsSpaced, Conflict
<1> QED
  BY <1>3, <1>4, <1>5, <1>6 DEF IInv
(* Time passes while a report fails: what is remembered still agrees. *)
LEMMA SendFailsPreserves ==
  ASSUME IInv, NEW t \in Track, NEW p \in Place, NEW l \in Label, NEW d \in SendTime,
         SendFails(t, p, l, d)
  PROVE  IInv'
<1>1. /\ Count(t) /\ d \in Nat /\ recent' = Aged(recent, d) /\ acked' = Recorded(acked, d)
      /\ reported' = reported /\ settled' = settled
  BY GatewayAssumption DEF SendFails, GatewayAssumption
<1>2. /\ mode = "tracking" /\ mode' = "tracking"
      /\ recent \subseteq Report /\ acked \subseteq TrackReport
  BY <1>1, ProcessTracks DEF IInv, Memory, TypeOK
<1>3. recent' \subseteq Report /\ acked' \subseteq TrackReport
  BY <1>1, <1>2, AgedReports, RecordedTracks
<1>4. TypeOK'
  BY <1>1, <1>3, CountTypeOK DEF IInv, TrackReport
<1>5. Memory'
  <2>1. /\ \A r \in recent' : \E a \in acked' : Same(r, a)
        /\ \A a \in acked' : \E r \in recent' : Same(r, a)
    BY <1>1, <1>2, AgreementAges DEF IInv, Memory
  <2> QED
    BY <1>2, <1>3, <2>1 DEF Memory, Same
<1>6. SettledOnce'
  BY <1>1 DEF IInv, SettledOnce
<1>7. ReportsSpaced'
  <2>1. \A x, y \in acked' : x # y => ~Conflict(x, y)
    BY <1>1, <1>2, SpacingAges DEF IInv, ReportsSpaced
  <2> QED
    BY <1>2, <2>1 DEF ReportsSpaced, Conflict
<1> QED
  BY <1>4, <1>5, <1>6, <1>7 DEF IInv

(* An acknowledged report enters both the memory and the history, and no   *)
(* report it would conflict with is in the memory.                         *)
LEMMA SendAckedPreserves ==
  ASSUME IInv, NEW t \in Track, NEW p \in Place, NEW l \in Label, NEW d \in SendTime,
         SendAcked(t, p, l, d)
  PROVE  IInv'
<1> DEFINE remembered == [label |-> l, place |-> p, age |-> 0]
           reporting == [label |-> l, place |-> p, track |-> t, age |-> 0]
           R == recent \cup {remembered}
           A == acked \cup {reporting}
<1>1. /\ Count(t) /\ d \in Nat /\ t \notin reported
      /\ recent' = Aged(R, d) /\ acked' = Recorded(A, d)
      /\ reported' = reported \cup {t} /\ settled' = Settle(t)
      /\ Duplicates(recent, p, l) = {}
  BY GatewayAssumption DEF SendAcked, Due, GatewayAssumption
<1>2. mode = "tracking" /\ mode' = "tracking"
  BY <1>1, ProcessTracks
<1>3. R \subseteq Report /\ A \subseteq TrackReport
  BY <1>2 DEF IInv, TypeOK, Memory, Report, TrackReport
<1>4. /\ \A r \in R : \E a \in A : Same(r, a)
      /\ \A a \in A : \E r \in R : Same(r, a)
  <2>1. Same(remembered, reporting)
    BY DEF Same
  <2> QED
    BY <1>2, <2>1 DEF IInv, Memory
<1>5. \A a, b \in A : a # b => ~Conflict(a, b)
  <2>1. ASSUME NEW a \in acked
        PROVE  ~Conflict(a, reporting) /\ ~Conflict(reporting, a)
    <3>1. PICK r \in recent : Same(r, a)
      BY <1>2 DEF IInv, Memory
    <3>2. ~(r.label = l /\ <<p, r.place>> \in Overlapping)
      BY <1>1 DEF Duplicates
    <3>3. a.place \in Place
      BY <1>3 DEF TrackReport
    <3>4. ~(a.label = l /\ <<p, a.place>> \in Overlapping)
      BY <3>1, <3>2 DEF Same
    <3>5. <<a.place, p>> \in Overlapping => <<p, a.place>> \in Overlapping
      BY <3>3, GatewayAssumption DEF GatewayAssumption
    <3> QED
      BY <1>2, <3>4, <3>5 DEF Conflict
  <2> QED
    BY <2>1 DEF IInv, ReportsSpaced
<1> HIDE DEF R, A
<1>6. recent' \subseteq Report /\ acked' \subseteq TrackReport
  BY <1>1, <1>3, AgedReports, RecordedTracks
<1>7. TypeOK'
  BY <1>1, <1>6, CountTypeOK DEF IInv, TrackReport
<1>8. Memory'
  <2>1. /\ \A r \in recent' : \E a \in acked' : Same(r, a)
        /\ \A a \in acked' : \E r \in recent' : Same(r, a)
    BY <1>1, <1>2, <1>3, <1>4, AgreementAges
  <2> QED
    BY <1>2, <1>6, <2>1 DEF Memory, Same
<1>9. SettledOnce'
  BY <1>1 DEF IInv, SettledOnce, Settle, Least, TypeOK
<1>10. ReportsSpaced'
  <2>1. \A x, y \in acked' : x # y => ~Conflict(x, y)
    BY <1>1, <1>2, <1>3, <1>5, SpacingAges
  <2> QED
    BY <1>2, <2>1 DEF ReportsSpaced, Conflict
<1> QED
  BY <1>7, <1>8, <1>9, <1>10 DEF IInv

LEMMA ProcessPreserves ==
  ASSUME IInv, NEW t \in Track, Process(t)
  PROVE  IInv'
<1>1. CASE TrackOnly(t) \/ Doubt(t)
  BY <1>1, CountPreserves DEF TrackOnly, Doubt
<1>2. CASE \E p \in Place, l \in Label : FindCovered(t, p, l)
  BY <1>2, FindCoveredPreserves
<1>3. CASE \E p \in Place, l \in Label, d \in SendTime : SendAcked(t, p, l, d)
  BY <1>3, SendAckedPreserves
<1>4. CASE \E p \in Place, l \in Label, d \in SendTime : SendFails(t, p, l, d)
  BY <1>4, SendFailsPreserves
<1> QED
  BY <1>1, <1>2, <1>3, <1>4 DEF Process

-------------------------------------------------------------------------------
(* The other actions *)

(* With the classifier alone the quiet of a label grows with its report. *)
LEMMA QuietAges ==
  ASSUME TypeOK, NEW l \in Label, NEW d \in Nat, quiet[l] + d < Cooldown
  PROVE  Quieter(d)[l] = quiet[l] + d
  BY GatewayAssumption DEF TypeOK, Quieter, Least, GatewayAssumption

LEMMA QuieterType ==
  ASSUME TypeOK, NEW d \in Nat
  PROVE  Quieter(d) \in [Label -> 0..Cooldown]
  BY GatewayAssumption DEF TypeOK, Quieter, Least, GatewayAssumption

LEMMA ReadFramePreserves ==
  ASSUME IInv, ReadFrame
  PROVE  IInv'
<1>1. PICK d \in FrameTime : /\ recent' = Aged(recent, d)
                             /\ quiet' = Quieter(d)
                             /\ acked' = Recorded(acked, d)
  BY DEF ReadFrame
<1>2. /\ d \in Nat /\ mode' = mode /\ phase' = "processing"
      /\ visible' \in IF mode = "tracking" THEN SUBSET Track ELSE {{}}
      /\ todo' = visible'
      /\ seen' = seen /\ lost' = lost /\ reported' = reported /\ settled' = settled
  BY GatewayAssumption DEF ReadFrame, tables, GatewayAssumption
<1>3. recent' \subseteq Report
  BY <1>1, <1>2, AgedReports DEF IInv, TypeOK
<1>4. \A a \in acked' : a.label \in Label /\ a.age \in Nat
  <2>1. CASE mode = "tracking"
    BY <1>1, <1>2, <2>1, RecordedTracks DEF IInv, Memory, TrackReport
  <2>2. CASE mode # "tracking"
    BY <1>1, <1>2, <2>2, RecordedLabels DEF IInv, Memory, LabelReport
  <2> QED
    BY <2>1, <2>2
<1>5. TypeOK'
  <2>1. quiet' \in [Label -> 0..Cooldown]
    BY <1>1, <1>2, QuieterType DEF IInv
  <2>2. visible' \subseteq Track
    BY <1>2
  <2>3. Known' = Known
    BY <1>2 DEF Known
  <2> QED
    BY <1>2, <1>3, <1>4, <2>1, <2>2, <2>3 DEF IInv, TypeOK
<1>6. Memory'
  <2>1. CASE mode = "tracking"
    <3>1. acked' \subseteq TrackReport
      BY <1>1, <1>2, <2>1, RecordedTracks DEF IInv, Memory
    <3>2. /\ \A r \in recent' : \E a \in acked' : Same(r, a)
          /\ \A a \in acked' : \E r \in recent' : Same(r, a)
      BY <1>1, <1>2, <2>1, AgreementAges DEF IInv, Memory, TypeOK
    <3> QED
      BY <1>2, <2>1, <3>1, <3>2 DEF Memory, Same
  <2>2. CASE mode = "classifying"
    <3>1. acked \subseteq LabelReport
      BY <2>2 DEF IInv, Memory
    <3>2. acked' \subseteq LabelReport
      BY <1>1, <1>2, <3>1, RecordedLabels
    <3>3. ASSUME NEW x \in acked'
          PROVE  quiet'[x.label] = x.age /\ x.age < Cooldown
      <4>0. x \in Recorded(acked, d) /\ d \in Nat
        BY <1>1, <1>2
      <4>1. PICK a \in acked : /\ a.age + d < Spacing
                               /\ x.label = a.label /\ x.age = a.age + d
        BY <2>2, <3>1, <4>0, RecordedLabels DEF Spacing
      <4>2. a.label \in Label /\ quiet[a.label] = a.age /\ a.age + d < Cooldown
        BY <2>2, <3>1, <4>1 DEF IInv, Memory, Spacing, LabelReport
      <4> QED
        BY <1>1, <1>2, <4>1, <4>2, QuietAges DEF IInv
    <3>4. recent' = {}
      BY <1>1, <2>2 DEF IInv, Memory, Aged
    <3> QED
      BY <1>2, <2>2, <3>2, <3>3, <3>4 DEF Memory
  <2>3. CASE mode = "blank"
    <3>1. acked = {} /\ recent = {}
      BY <2>3 DEF IInv, Memory
    <3>2. acked' = {} /\ recent' = {}
      BY <1>1, <3>1 DEF Recorded, Aged
    <3> QED
      BY <1>2, <2>3, <3>2 DEF Memory
  <2> QED
    BY <2>1, <2>2, <2>3 DEF IInv, TypeOK
<1>7. SettledOnce'
  BY <1>2 DEF IInv, SettledOnce
<1>8. ReportsSpaced'
  <2>1. \/ mode = "tracking" /\ acked \subseteq TrackReport
        \/ mode # "tracking" /\ acked \subseteq LabelReport
    BY DEF IInv, Memory
  <2>2. \A a, b \in acked : a # b => ~Conflict(a, b)
    BY DEF IInv, ReportsSpaced
  <2>3. \A x, y \in Recorded(acked, d) : x # y => ~Conflict(x, y)
    BY <1>2, <2>1, <2>2, SpacingAges
  <2> QED
    BY <1>1, <1>2, <2>3 DEF ReportsSpaced, Conflict
<1> QED
  BY <1>5, <1>6, <1>7, <1>8 DEF IInv
(* A step that leaves mode, tables and all records alone. *)
LEMMA UnchangedPreserves ==
  ASSUME IInv, UNCHANGED <<mode, visible, todo, tables, recent, quiet, acked, settled>>,
         \/ UNCHANGED phase
         \/ phase' \in {"reading", "stopped"}
  PROVE  IInv'
<1>1. Known' = Known
  BY DEF Known, tables
<1>2. TypeOK'
  BY <1>1 DEF IInv, TypeOK, tables
<1>3. Memory'
  BY DEF IInv, Memory, Same
<1>4. SettledOnce' /\ ReportsSpaced'
  BY DEF IInv, SettledOnce, ReportsSpaced, Conflict, tables
<1> QED
  BY <1>2, <1>3, <1>4 DEF IInv

(* A track that is forgotten loses its mark and its history together. *)
LEMMA EndTrackingPreserves ==
  ASSUME IInv, EndTracking
  PROVE  IInv'
<1> DEFINE gone == {t \in Known : Missed(t) > Cleanup}
<1>1. /\ mode = "tracking" /\ mode' = "tracking" /\ phase' = "reading"
      /\ todo = {} /\ todo' = {} /\ visible' = {}
      /\ recent' = recent /\ quiet' = quiet /\ acked' = acked
      /\ Forget(gone)
  BY DEF EndTracking
<1>2. gone \subseteq Known /\ Known \subseteq Track
  BY DEF Known
<1>3. \A t \in Track \ gone : Missed(t) \in 0..Cleanup
  BY GatewayAssumption DEF IInv, TypeOK, Missed, Known, GatewayAssumption
<1>4. \A t \in Track \ Known : Missed(t) = 0
  BY DEF IInv, TypeOK, Missed, Known
<1> HIDE DEF gone
<1>5. /\ seen' \in [Track -> 0..Persist]
      /\ settled' \in [Track -> 0..2]
  BY <1>1, GatewayAssumption DEF IInv, TypeOK, Forget, GatewayAssumption
<1>6. lost' \in [Track -> 0..Cleanup]
  BY <1>1, <1>3, GatewayAssumption DEF Forget, GatewayAssumption
<1>7. Known' = Known \ gone
  BY <1>1, <1>2 DEF Forget, Known
<1>8. reported' = reported \ gone
  BY <1>1 DEF Forget
<1>9. \A t \in Track \ Known' : lost'[t] = 0 /\ settled'[t] = 0
  BY <1>1, <1>4, <1>7 DEF IInv, TypeOK, Forget
<1>10. TypeOK'
  BY <1>1, <1>5, <1>6, <1>7, <1>8, <1>9 DEF IInv, TypeOK
<1>11. Memory'
  BY <1>1 DEF IInv, Memory, Same
<1>12. SettledOnce'
  BY <1>1, <1>8 DEF IInv, SettledOnce, Forget
<1>13. ReportsSpaced'
  BY <1>1 DEF IInv, ReportsSpaced, Conflict
<1> QED
  BY <1>10, <1>11, <1>12, <1>13 DEF IInv

(* A label is reported when all its reports are Cooldown old, that is,     *)
(* when none is left in the history.                                       *)
LEMMA ClassifyPreserves ==
  ASSUME IInv, NEW l \in Label, NEW ok \in BOOLEAN, NEW d \in SendTime, Classify(l, ok, d)
  PROVE  IInv'
<1> DEFINE reporting == [label |-> l, age |-> 0]
           A == IF ok THEN acked \cup {reporting} ELSE acked
<1>1. /\ mode = "classifying" /\ mode' = mode /\ phase' = "reading"
      /\ visible' = visible /\ todo' = todo /\ recent' = recent
      /\ seen' = seen /\ lost' = lost /\ reported' = reported /\ settled' = settled
      /\ quiet[l] = Cooldown /\ acked' = Recorded(A, d)
      /\ quiet' = [Quieter(d) EXCEPT ![l] = IF ok THEN Least(d, Cooldown) ELSE @]
  BY DEF Classify, tables
<1>2. d \in Nat /\ Cooldown \in Nat
  BY GatewayAssumption DEF GatewayAssumption
<1>3. acked \subseteq LabelReport /\ \A a \in acked : quiet[a.label] = a.age /\ a.age < Cooldown
  BY <1>1 DEF IInv, Memory
<1>4. A \subseteq LabelReport
  BY <1>3 DEF LabelReport
<1>5. \A a \in acked : a.label # l
  BY <1>1, <1>2, <1>3
<1>6. \A a, b \in A : a # b => ~Conflict(a, b)
  BY <1>5 DEF IInv, ReportsSpaced, Conflict
<1>7. quiet' \in [Label -> 0..Cooldown]
  BY <1>1, <1>2, QuieterType DEF IInv, Least
<1>8. acked' \subseteq LabelReport
  BY <1>1, <1>2, <1>4, RecordedLabels
<1>9. ASSUME NEW x \in acked'
      PROVE  quiet'[x.label] = x.age /\ x.age < Cooldown
  <2>1. PICK a \in A : a.age + d < Cooldown /\ x.label = a.label /\ x.age = a.age + d
    BY <1>1, <1>2, <1>4, RecordedLabels DEF Spacing
  <2>2. Quieter(d) \in [Label -> 0..Cooldown]
    BY <1>2, QuieterType DEF IInv
  <2>3. CASE a \in acked
    <3>1. a.label \in Label /\ a.label # l /\ quiet[a.label] = a.age
      BY <1>3, <1>5, <2>3 DEF LabelReport
    <3>2. Quieter(d)[a.label] = a.age + d
      BY <1>2, <2>1, <3>1, QuietAges DEF IInv
    <3>3. quiet'[a.label] = Quieter(d)[a.label]
      BY <1>1, <2>2, <3>1
    <3> QED
      BY <2>1, <3>2, <3>3
  <2>4. CASE ok /\ a = reporting
    <3>1. a.label = l /\ a.age = 0
      BY <2>4
    <3>2. quiet'[l] = d
      BY <1>1, <1>2, <2>1, <2>2, <2>4, <3>1 DEF Least
    <3> QED
      BY <1>2, <2>1, <3>1, <3>2
  <2> QED
    BY <2>1, <2>3, <2>4
<1>10. TypeOK'
  <2>1. Known' = Known
    BY <1>1 DEF Known
  <2> QED
    BY <1>1, <1>7, <1>8, <2>1 DEF IInv, TypeOK, LabelReport
<1>11. Memory'
  BY <1>1, <1>8, <1>9 DEF IInv, Memory
<1>12. SettledOnce'
  BY <1>1 DEF IInv, SettledOnce
<1>13. ReportsSpaced'
  <2>1. \A x, y \in acked' : x # y => ~Conflict(x, y)
    BY <1>1, <1>2, <1>4, <1>6, SpacingAges
  <2> QED
    BY <1>1, <2>1 DEF ReportsSpaced, Conflict
<1> QED
  BY <1>10, <1>11, <1>12, <1>13 DEF IInv

-------------------------------------------------------------------------------
(* The invariant *)

LEMMA InitIInv == Init => IInv
<1> SUFFICES ASSUME Init PROVE IInv
  OBVIOUS
<1>1. TypeOK
  BY GatewayAssumption DEF Init, TypeOK, Known, GatewayAssumption
<1>2. Memory
  BY DEF Init, Memory
<1>3. SettledOnce /\ ReportsSpaced
  BY DEF Init, SettledOnce, ReportsSpaced
<1> QED
  BY <1>1, <1>2, <1>3 DEF IInv

LEMMA NextIInv == IInv /\ [Next]_vars => IInv'
<1> SUFFICES ASSUME IInv, [Next]_vars PROVE IInv'
  OBVIOUS
<1>1. CASE ReadFrame
  BY <1>1, ReadFramePreserves
<1>2. CASE EndTracking
  BY <1>2, EndTrackingPreserves
<1>3. CASE ClassifyQuietly
  BY <1>3, UnchangedPreserves DEF ClassifyQuietly
<1>4. CASE \E t \in Track : Process(t)
  BY <1>4, ProcessPreserves
<1>5. CASE \E l \in Label, ok \in BOOLEAN, d \in SendTime : Classify(l, ok, d)
  BY <1>5, ClassifyPreserves
<1>6. CASE Stop
  BY <1>6, UnchangedPreserves DEF Stop
<1>7. CASE UNCHANGED vars
  BY <1>7, UnchangedPreserves DEF vars
<1> QED
  BY <1>1, <1>2, <1>3, <1>4, <1>5, <1>6, <1>7 DEF Next, Step

LEMMA SpecIInv == Spec => []IInv
<1>1. Init => IInv
  BY InitIInv
<1>2. IInv /\ [Next]_vars => IInv'
  BY NextIInv
<1> QED
  BY <1>1, <1>2, PTL DEF Spec

(* The gateway's tables have their types; only known tracks are marked as  *)
(* reported (gateway.py:117-340).                                          *)
THEOREM GatewayTypeCorrect == Spec => []TypeOK
<1>1. IInv => TypeOK
  BY DEF IInv
<1> QED
  BY <1>1, SpecIInv, PTL

(* A track is marked exactly if one acknowledged report settled it in its  *)
(* present life, however many tracks there are and however slow or often   *)
(* failing the sends (gateway.py:251-284, 315-321).                        *)
THEOREM GatewaySettledOnce == Spec => []SettledOnce
<1>1. IInv => SettledOnce
  BY DEF IInv
<1> QED
  BY <1>1, SpecIInv, PTL

(* Acknowledged reports of one label that overlap were decided on at least *)
(* Window apart, without tracking those of one label Cooldown apart, for   *)
(* every length of window and send (gateway.py:205-209, 256-280).          *)
THEOREM GatewayReportsSpaced == Spec => []ReportsSpaced
<1>1. IInv => ReportsSpaced
  BY DEF IInv
<1> QED
  BY <1>1, SpecIInv, PTL
==============================================================================
