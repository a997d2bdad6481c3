--------------------------- MODULE AnalysisProofs ---------------------------
(***************************************************************************)
(* Proofs about ServerAnalysis and the WorkflowCall inside it, for any     *)
(* backends, numbers of jobs, frames, crashes and calls, and any retries,  *)
(* timeout and delay of the client.                                        *)
(***************************************************************************)
EXTENDS ServerAnalysis, FiniteSetTheorems, WellFoundedInduction, TLAPS

(***************************************************************************)
(* Induction over the natural numbers, in the form of sets: a set that has *)
(* zero and with each number the next has no least number outside.         *)
(***************************************************************************)
LEMMA SetInduction ==
  ASSUME NEW S, 0 \in S, \A n \in Nat : n \in S => n + 1 \in S
  PROVE  \A n \in Nat : n \in S
<1> DEFINE T == Nat \ S
<1> DEFINE R == OpToRel(<, Nat)
<1> SUFFICES ASSUME T # {} PROVE FALSE
  OBVIOUS
<1>1. PICK x \in T : \A y \in T : <<y, x>> \notin R
  <2>1. IsWellFoundedOn(R, Nat)
    BY NatLessThanWellFounded
  <2>2. T \subseteq Nat
    OBVIOUS
  <2> HIDE DEF T, R
  <2> QED
    BY <2>1, <2>2, WFMin
<1>2. x \in Nat /\ x # 0
  OBVIOUS
<1>3. x - 1 \in Nat /\ x = (x - 1) + 1
  BY <1>2
<1>4. x - 1 \in T
  BY <1>3
<1>5. <<x - 1, x>> \in R
  BY <1>2, <1>3 DEF OpToRel
<1> QED
  BY <1>1, <1>4, <1>5

(***************************************************************************)
(* The pauses of the client                                                *)
(***************************************************************************)
LEMMA Constants ==
  /\ MaxRetries \in Nat /\ BaseDelay \in Nat /\ MaxCalls \in Nat
  /\ TimeoutSeconds \in Nat \ {0}
BY ClientAssumption DEF Workflow!WorkflowAssumption

(* What the definition of Delay asks of a function, up to n. *)
Doubles(g, n) == g[0] = BaseDelay /\ \A k \in 1..n : g[k] = 2 * g[k - 1]

LEMMA DoublesExists == \A n \in Nat : \E g \in [Nat -> Nat] : Doubles(g, n)
<1> DEFINE S == {n \in Nat : \E g \in [Nat -> Nat] : Doubles(g, n)}
<1>1. 0 \in S
  <2> DEFINE g == [k \in Nat |-> BaseDelay]
  <2> g \in [Nat -> Nat] /\ Doubles(g, 0)
    BY Constants DEF Doubles
  <2> QED
    OBVIOUS
<1>2. ASSUME NEW n \in Nat, n \in S PROVE n + 1 \in S
  <2>1. PICK g \in [Nat -> Nat] : Doubles(g, n)
    BY <1>2
  <2> DEFINE h == [g EXCEPT ![n + 1] = 2 * g[n]]
  <2>2. h \in [Nat -> Nat]
    OBVIOUS
  <2>3. h[n + 1] = 2 * g[n] /\ \A k \in 0..n : h[k] = g[k]
    OBVIOUS
  <2>4. ASSUME NEW k \in 1..(n + 1) PROVE h[k] = 2 * h[k - 1]
    <3>1. k - 1 \in 0..n /\ (k = n + 1 \/ k \in 1..n)
      OBVIOUS
    <3> HIDE DEF h
    <3> QED
      BY <2>1, <2>3, <3>1 DEF Doubles
  <2>5. Doubles(h, n + 1)
    <3>1. h[0] = BaseDelay
      BY <2>1, <2>3 DEF Doubles
    <3> HIDE DEF h
    <3> QED
      BY <2>4, <3>1 DEF Doubles
  <2> HIDE DEF h
  <2> QED
    BY <2>2, <2>5
<1> HIDE DEF S
<1>3. \A n \in Nat : n \in S
  BY <1>1, <1>2, SetInduction
<1> QED
  BY <1>3 DEF S

LEMMA DoublesUnique ==
  ASSUME NEW g \in [Nat -> Nat], NEW h \in [Nat -> Nat], NEW m \in Nat,
         Doubles(g, m), Doubles(h, m)
  PROVE  g[m] = h[m]
<1> DEFINE S == {n \in Nat : n <= m => g[n] = h[n]}
<1>1. 0 \in S
  BY DEF Doubles
<1>2. ASSUME NEW n \in Nat, n \in S PROVE n + 1 \in S
  BY <1>2 DEF Doubles
<1> HIDE DEF S
<1>3. m \in S
  BY <1>1, <1>2, SetInduction
<1> QED
  BY <1>3 DEF S

(* Delay is what its recursive definition says. *)
LEMMA DelayDoubles ==
  /\ Workflow!Delay \in [Nat -> Nat]
  /\ Workflow!Delay[0] = BaseDelay
  /\ \A n \in Nat : Workflow!Delay[n + 1] = 2 * Workflow!Delay[n]
<1> DEFINE G(n) == CHOOSE g \in [Nat -> Nat] : Doubles(g, n)
<1> DEFINE f == [n \in Nat |-> G(n)[n]]
<1> DEFINE Def(d) == [n \in Nat |-> IF n = 0 THEN BaseDelay ELSE 2 * d[n - 1]]
<1>1. \A n \in Nat : G(n) \in [Nat -> Nat] /\ Doubles(G(n), n)
  BY DoublesExists
<1> HIDE DEF G
<1>2. f \in [Nat -> Nat]
  BY <1>1
<1>3. f[0] = BaseDelay
  BY <1>1 DEF Doubles
<1>4. ASSUME NEW n \in Nat PROVE f[n + 1] = 2 * f[n]
  <2>1. G(n + 1) \in [Nat -> Nat] /\ Doubles(G(n + 1), n + 1)
    BY <1>1
  <2>2. Doubles(G(n + 1), n)
    BY <2>1 DEF Doubles
  <2>3. G(n + 1)[n] = G(n)[n]
    BY <1>1, <2>1, <2>2, DoublesUnique
  <2>4. G(n + 1)[n + 1] = 2 * G(n + 1)[n]
    BY <2>1 DEF Doubles
  <2> QED
    BY <2>3, <2>4
<1>5. f = Def(f)
  <2>1. ASSUME NEW n \in Nat, n # 0 PROVE f[n] = 2 * f[n - 1]
    <3>1. n - 1 \in Nat /\ (n - 1) + 1 = n
      BY <2>1
    <3> HIDE DEF f
    <3> QED
      BY <1>4, <3>1
  <2> QED
    BY <1>3, <2>1
<1> HIDE DEF f
<1>6. Workflow!Delay = Def(Workflow!Delay)
  BY <1>5 DEF Workflow!Delay
<1>7. Workflow!Delay = [n \in Nat |-> Workflow!Delay[n]]
  BY <1>6
<1>8. Workflow!Delay[0] = BaseDelay
  BY <1>6
<1>9. ASSUME NEW n \in Nat PROVE Workflow!Delay[n + 1] = 2 * Workflow!Delay[n]
  <2>1. n + 1 \in Nat /\ n + 1 # 0 /\ (n + 1) - 1 = n
    OBVIOUS
  <2> QED
    BY <1>6, <2>1
<1>10. ASSUME NEW n \in Nat PROVE Workflow!Delay[n] \in Nat
  <2> DEFINE S == {k \in Nat : Workflow!Delay[k] \in Nat}
  <2>1. 0 \in S
    BY <1>8, Constants
  <2>2. ASSUME NEW k \in Nat, k \in S PROVE k + 1 \in S
    BY <1>9, <2>2
  <2> HIDE DEF S
  <2>3. n \in S
    BY <2>1, <2>2, SetInduction
  <2> QED
    BY <2>3 DEF S
<1> QED
  BY <1>7, <1>8, <1>9, <1>10
LEMMA PausesGrow ==
  ASSUME NEW n \in Nat
  PROVE  /\ Workflow!BackoffOf(n) \in Nat
         /\ Workflow!BackoffOf(n + 1) = Workflow!BackoffOf(n) + Workflow!Delay[n]
         /\ Workflow!Delay[n] \in Nat
<1> DEFINE S == {k \in Nat : Workflow!Delay[k] >= BaseDelay}
<1>1. 0 \in S
  BY DelayDoubles, Constants
<1>2. ASSUME NEW k \in Nat, k \in S PROVE k + 1 \in S
  <2>1. Workflow!Delay[k + 1] = 2 * Workflow!Delay[k] /\ Workflow!Delay[k] \in Nat
    BY DelayDoubles
  <2> QED
    BY <1>2, <2>1, Constants
<1> HIDE DEF S
<1>3. n \in S
  BY <1>1, <1>2, SetInduction
<1>4. Workflow!Delay[n] \in Nat /\ Workflow!Delay[n] >= BaseDelay
  BY <1>3, DelayDoubles DEF S
<1>5. Workflow!Delay[n + 1] = 2 * Workflow!Delay[n]
  BY DelayDoubles
<1> QED
  BY <1>4, <1>5, Constants DEF Workflow!BackoffOf

(***************************************************************************)
(* The workflow client                                                     *)
(***************************************************************************)
(* A call that is under way has an attempt; no thread belongs to a later   *)
(* call or attempt.                                                        *)
Attempts ==
  /\ phase # "idle" => attempt >= 1 /\ call >= 1
  /\ phase = "sleeping" => attempt <= MaxRetries
  /\ \A r \in running : r[1] <= call /\ (r[1] = call => r[2] <= attempt)

CallInv == Workflow!TypeOK /\ Attempts /\ OverlapCostsTimeouts

LEMMA RunningIsFinite ==
  /\ Workflow!TypeOK => IsFiniteSet(running) /\ IsFiniteSet(Workflow!Abandoned)
  /\ Workflow!TypeOK' => IsFiniteSet(running') /\ IsFiniteSet(Workflow!Abandoned')
<1> DEFINE All == (1..MaxCalls) \X (1..(MaxRetries + 1))
<1>1. IsFiniteSet(1..MaxCalls) /\ IsFiniteSet(1..(MaxRetries + 1))
  BY Constants, FS_Interval
<1>2. IsFiniteSet(All)
  BY <1>1, FS_Product
<1>3. Workflow!TypeOK => running \subseteq All
  BY DEF Workflow!TypeOK
<1>4. Workflow!TypeOK' => running' \subseteq All
  BY DEF Workflow!TypeOK
<1>5. Workflow!Abandoned \subseteq running /\ Workflow!Abandoned' \subseteq running'
  BY DEF Workflow!Abandoned
<1> HIDE DEF All
<1>6. Workflow!TypeOK => IsFiniteSet(running)
  BY <1>2, <1>3, FS_Subset
<1>7. Workflow!TypeOK' => IsFiniteSet(running')
  BY <1>2, <1>4, FS_Subset
<1> QED
  BY <1>5, <1>6, <1>7, FS_Subset

(* The price of abandoned attempts, by their number. *)
LEMMA Price ==
  ASSUME NEW n \in Nat
  PROVE  /\ n * TimeoutSeconds \in Nat
         /\ (n + 1) * TimeoutSeconds = n * TimeoutSeconds + TimeoutSeconds
         /\ \A m \in 0..n : m * TimeoutSeconds <= n * TimeoutSeconds
BY Constants, SMT

LEMMA PausesCounted ==
  /\ Workflow!TypeOK => Workflow!Pauses \in Nat /\ Workflow!BackoffOf(Workflow!Pauses) \in Nat
  /\ Workflow!TypeOK' => Workflow!Pauses' \in Nat /\ Workflow!BackoffOf(Workflow!Pauses)' \in Nat
<1>1. Workflow!TypeOK => Workflow!Pauses \in Nat
  BY Constants DEF Workflow!TypeOK, Workflow!Pauses
<1>2. Workflow!TypeOK' => Workflow!Pauses' \in Nat
  <2>1. Workflow!TypeOK' => attempt' \in Nat
    BY Constants DEF Workflow!TypeOK
  <2> QED
    BY <2>1 DEF Workflow!Pauses
<1>3. ASSUME NEW p \in Nat PROVE Workflow!BackoffOf(p) \in Nat
  BY PausesGrow
<1>4. Workflow!BackoffOf(Workflow!Pauses)' = Workflow!BackoffOf(Workflow!Pauses')
  BY DEF Workflow!BackoffOf
<1> QED
  BY <1>1, <1>2, <1>3, <1>4

(* WorkflowCall counts with the Cardinality of its own FiniteSets. *)
LEMMA SameCardinality ==
  /\ OverlapCostsTimeouts <=>
       Cardinality(Workflow!Abandoned) * TimeoutSeconds + Workflow!BackoffOf(Workflow!Pauses)
         <= waited
  /\ OverlapCostsTimeouts' <=>
       Cardinality(Workflow!Abandoned') * TimeoutSeconds + Workflow!BackoffOf(Workflow!Pauses)'
         <= waited'
<1>1. \A S : Workflow!Cardinality(S) = Cardinality(S)
  BY Zenon DEF Workflow!Cardinality, Cardinality
<1> QED
  BY <1>1 DEF OverlapCostsTimeouts, Workflow!OverlapCostsTimeouts

LEMMA Balance ==
  \A x, y, t, b, c, w, v \in Nat :
    /\ y <= x /\ x + b <= w /\ w + c <= v + b => y + c <= v
    /\ y <= x + t /\ x + b <= w /\ w + t + c <= v + b => y + c <= v
OBVIOUS

(* No thread more is abandoned, and the caller waited for each new pause.  *)
LEMMA OverlapKept ==
  ASSUME CallInv, Workflow!TypeOK',
         Workflow!Abandoned' \subseteq Workflow!Abandoned,
         waited + Workflow!BackoffOf(Workflow!Pauses)'
           <= waited' + Workflow!BackoffOf(Workflow!Pauses)
  PROVE  OverlapCostsTimeouts'
<1> DEFINE n == Cardinality(Workflow!Abandoned)
           m == Cardinality(Workflow!Abandoned')
           b == Workflow!BackoffOf(Workflow!Pauses)
           c == Workflow!BackoffOf(Workflow!Pauses)'
<1>1. n \in Nat /\ m \in Nat /\ m <= n
  BY RunningIsFinite, FS_Subset, FS_CardinalityType DEF CallInv
<1>2. b \in Nat /\ c \in Nat
  BY PausesCounted DEF CallInv
<1>3. waited \in Nat /\ waited' \in Nat
  BY DEF CallInv, Workflow!TypeOK
<1>4. n * TimeoutSeconds + b <= waited
  BY SameCardinality DEF CallInv
<1>5. waited + c <= waited' + b
  OBVIOUS
<1> HIDE DEF n, m, b, c
<1>6. m * TimeoutSeconds <= n * TimeoutSeconds /\ m * TimeoutSeconds \in Nat
      /\ n * TimeoutSeconds \in Nat
  BY <1>1, Price
<1> DEFINE x == n * TimeoutSeconds
           y == m * TimeoutSeconds
<1>7. m * TimeoutSeconds + c <= waited'
  <2>1. y <= x /\ y \in Nat /\ x \in Nat /\ x + b <= waited
    BY <1>4, <1>6
  <2> HIDE DEF x, y
  <2>3. y + c <= waited'
    BY <1>2, <1>3, <1>5, <2>1, Balance, Zenon
  <2> QED
    BY <2>3 DEF y
<1> QED
  BY <1>7, SameCardinality DEF n, m, b, c

(* A timeout leaves the thread of its attempt behind, and paid for it.     *)
LEMMA OverlapPaid ==
  ASSUME CallInv, Workflow!TypeOK',
         Workflow!Abandoned' \subseteq Workflow!Abandoned \cup {<<call, attempt>>},
         waited + TimeoutSeconds + Workflow!BackoffOf(Workflow!Pauses)'
           <= waited' + Workflow!BackoffOf(Workflow!Pauses)
  PROVE  OverlapCostsTimeouts'
<1> DEFINE A == Workflow!Abandoned
           n == Cardinality(A)
           m == Cardinality(Workflow!Abandoned')
           b == Workflow!BackoffOf(Workflow!Pauses)
           c == Workflow!BackoffOf(Workflow!Pauses)'
<1>1. IsFiniteSet(A) /\ n \in Nat
  BY RunningIsFinite, FS_CardinalityType DEF CallInv
<1>2. m \in Nat /\ m <= n + 1
  <2> HIDE DEF A
  <2>1. /\ IsFiniteSet(A \cup {<<call, attempt>>})
        /\ Cardinality(A \cup {<<call, attempt>>}) \in Nat
        /\ Cardinality(A \cup {<<call, attempt>>}) <= n + 1
    <3> DEFINE B == A \cup {<<call, attempt>>}
    <3>1. IsFiniteSet(B) /\ (Cardinality(B) = n \/ Cardinality(B) = n + 1)
      BY <1>1, FS_AddElement
    <3> HIDE DEF B, n
    <3>2. Cardinality(B) \in Nat /\ Cardinality(B) <= n + 1
      BY <1>1, <3>1
    <3> QED
      BY <3>1, <3>2 DEF B
  <2>2. m \in Nat /\ m <= Cardinality(A \cup {<<call, attempt>>})
    <3>1. Workflow!Abandoned' \subseteq A \cup {<<call, attempt>>}
      BY DEF A
    <3> QED
      BY <2>1, <3>1, FS_Subset, FS_CardinalityType
  <2> QED
    BY <1>1, <2>1, <2>2
<1>3. b \in Nat /\ c \in Nat
  BY PausesCounted DEF CallInv
<1>4. waited \in Nat /\ waited' \in Nat
  BY DEF CallInv, Workflow!TypeOK
<1>5. n * TimeoutSeconds + b <= waited
  BY SameCardinality DEF CallInv
<1>6. waited + TimeoutSeconds + c <= waited' + b
  OBVIOUS
<1> HIDE DEF A, n, m, b, c
<1>7. /\ n * TimeoutSeconds \in Nat
      /\ m * TimeoutSeconds \in Nat
      /\ m * TimeoutSeconds <= n * TimeoutSeconds + TimeoutSeconds
  BY <1>1, <1>2, Price
<1> DEFINE x == n * TimeoutSeconds
           y == m * TimeoutSeconds
<1>8. m * TimeoutSeconds + c <= waited'
  <2>1. y <= x + TimeoutSeconds /\ y \in Nat /\ x \in Nat /\ x + b <= waited
    BY <1>5, <1>7
  <2> HIDE DEF x, y
  <2>2. TimeoutSeconds \in Nat
    BY Constants
  <2>3. y + c <= waited'
    BY <1>3, <1>4, <1>6, <2>1, <2>2, Balance, Zenon
  <2> QED
    BY <2>3 DEF y
<1> QED
  BY <1>8, SameCardinality DEF A, n, m, b, c

LEMMA PhaseIs ==
  Workflow!Phase = {"idle", "waiting", "sleeping", "answered", "returned", "raised"}
BY DEF Workflow!Phase

LEMMA BeginKeeps == ASSUME CallInv, Workflow!Begin PROVE CallInv'
<1>1. Workflow!TypeOK'
  BY Constants, PhaseIs DEF CallInv, Workflow!TypeOK, Workflow!Begin
<1>2. Attempts'
  BY Constants DEF CallInv, Attempts, Workflow!TypeOK, Workflow!Begin
<1>3. Workflow!Abandoned' = {}
  <2>1. ASSUME NEW r \in running' PROVE r \notin Workflow!Abandoned'
    BY Constants DEF CallInv, Attempts, Workflow!TypeOK, Workflow!Begin, Workflow!Abandoned
  <2> QED
    BY <2>1 DEF Workflow!Abandoned
<1>4. waited' = 0 /\ Workflow!Pauses' = 0
  BY DEF Workflow!Begin, Workflow!Pauses
<1>5. Workflow!BackoffOf(0) = 0
  BY DelayDoubles, Constants DEF Workflow!BackoffOf
<1>6. OverlapCostsTimeouts'
  <2>1. Workflow!BackoffOf(Workflow!Pauses)' = 0
    BY <1>4, <1>5 DEF Workflow!BackoffOf
  <2>2. Cardinality(Workflow!Abandoned') * TimeoutSeconds = 0
    BY <1>3, FS_EmptySet, Constants
  <2> QED
    BY <1>4, <2>1, <2>2, SameCardinality
<1> QED
  BY <1>1, <1>2, <1>6 DEF CallInv

(* What an attempt that ends badly has the caller wait for. *)
LEMMA GivingUp ==
  ASSUME CallInv, phase = "waiting", UNCHANGED <<call, attempt>>,
         NEW seconds \in Nat, Workflow!GiveUpOrSleep(seconds)
  PROVE  /\ phase' \in {"raised", "sleeping"} /\ waited' \in Nat
         /\ phase' = "sleeping" => attempt' <= MaxRetries
         /\ waited + seconds + Workflow!BackoffOf(Workflow!Pauses)'
              <= waited' + Workflow!BackoffOf(Workflow!Pauses)
<1>1. attempt \in 1..(MaxRetries + 1) /\ waited \in Nat
  BY Constants DEF CallInv, Attempts, Workflow!TypeOK
<1>2. Workflow!Pauses = attempt - 1 /\ attempt - 1 \in Nat /\ (attempt - 1) + 1 = attempt
  BY <1>1, Constants DEF Workflow!Pauses
<1> DEFINE b == Workflow!BackoffOf(attempt - 1)
           d == Workflow!Delay[attempt - 1]
<1>3. b \in Nat /\ d \in Nat /\ Workflow!BackoffOf(attempt) = b + d
  BY <1>2, PausesGrow
<1>4. CASE attempt >= MaxRetries + 1
  <2>1. phase' = "raised" /\ waited' = waited + seconds
    BY <1>4 DEF Workflow!GiveUpOrSleep
  <2>2. Workflow!Pauses' = attempt - 1
    BY <1>1, <2>1 DEF Workflow!Pauses
  <2>3. Workflow!BackoffOf(Workflow!Pauses)' = Workflow!BackoffOf(Workflow!Pauses)
    BY <1>2, <2>2 DEF Workflow!BackoffOf
  <2>4. Workflow!BackoffOf(Workflow!Pauses) \in Nat
    BY <1>2, <1>3
  <2> QED
    BY <1>1, <2>1, <2>3, <2>4
<1>5. CASE ~(attempt >= MaxRetries + 1)
  <2>1. phase' = "sleeping" /\ waited' = waited + seconds + d
    BY <1>5 DEF Workflow!GiveUpOrSleep, Workflow!Backoff
  <2>2. Workflow!Pauses' = attempt
    BY <2>1 DEF Workflow!Pauses
  <2>3. Workflow!BackoffOf(Workflow!Pauses)' = Workflow!BackoffOf(attempt)
    BY <2>2 DEF Workflow!BackoffOf
  <2>4. Workflow!BackoffOf(Workflow!Pauses) = b
    BY <1>2
  <2>5. attempt' <= MaxRetries
    BY <1>1, <1>5, Constants
  <2> HIDE DEF b, d
  <2> QED
    BY <1>1, <1>3, <2>1, <2>3, <2>4, <2>5
<1> QED
  BY <1>4, <1>5

LEMMA TimeOutKeeps == ASSUME CallInv, Workflow!TimeOut PROVE CallInv'
<1> USE DEF Workflow!TimeOut
<1>1. /\ phase' \in {"raised", "sleeping"} /\ waited' \in Nat
      /\ phase' = "sleeping" => attempt' <= MaxRetries
      /\ waited + TimeoutSeconds + Workflow!BackoffOf(Workflow!Pauses)'
           <= waited' + Workflow!BackoffOf(Workflow!Pauses)
  BY GivingUp, Constants
<1>2. Workflow!TypeOK'
  BY <1>1, PhaseIs DEF CallInv, Workflow!TypeOK
<1>3. Attempts'
  BY <1>1 DEF CallInv, Attempts
<1>4. Workflow!Abandoned' \subseteq Workflow!Abandoned \cup {<<call, attempt>>}
  <2>1. ASSUME NEW r \in Workflow!Abandoned', r # <<call, attempt>>
        PROVE  r \in Workflow!Abandoned
    <3>1. r \in running /\ r[1] = call
      BY DEF Workflow!Abandoned
    <3>2. r = <<r[1], r[2]>>
      BY <3>1 DEF CallInv, Workflow!TypeOK
    <3> QED
      BY <2>1, <3>1, <3>2 DEF Workflow!Abandoned
  <2> QED
    BY <2>1
<1>5. OverlapCostsTimeouts'
  BY <1>1, <1>2, <1>4, OverlapPaid
<1> QED
  BY <1>2, <1>3, <1>5 DEF CallInv

LEMMA FailKeeps == ASSUME CallInv, NEW seconds \in 0..TimeoutSeconds, Workflow!Fail(seconds) PROVE CallInv'
<1> USE DEF Workflow!Fail
<1>1. /\ phase' \in {"raised", "sleeping"} /\ waited' \in Nat
      /\ phase' = "sleeping" => attempt' <= MaxRetries
      /\ waited + seconds + Workflow!BackoffOf(Workflow!Pauses)'
           <= waited' + Workflow!BackoffOf(Workflow!Pauses)
  <2> seconds \in Nat
    BY Constants
  <2> QED
    BY GivingUp
<1>2. Workflow!TypeOK'
  BY <1>1, PhaseIs DEF CallInv, Workflow!TypeOK
<1>3. Attempts'
  BY <1>1 DEF CallInv, Attempts
<1>4. Workflow!Abandoned' \subseteq Workflow!Abandoned
  <2>1. ASSUME NEW r \in Workflow!Abandoned' PROVE r \in Workflow!Abandoned
    <3>1. r \in running /\ r[1] = call /\ r # <<call, attempt>>
      BY DEF Workflow!Abandoned
    <3>2. r = <<r[1], r[2]>>
      BY <3>1 DEF CallInv, Workflow!TypeOK
    <3> QED
      BY <3>1, <3>2 DEF Workflow!Abandoned
  <2> QED
    BY <2>1
<1>5. waited + Workflow!BackoffOf(Workflow!Pauses)' <= waited' + Workflow!BackoffOf(Workflow!Pauses)
  <2>1. waited \in Nat /\ waited' \in Nat
    BY <1>2 DEF CallInv, Workflow!TypeOK
  <2>2. Workflow!BackoffOf(Workflow!Pauses) \in Nat /\ Workflow!BackoffOf(Workflow!Pauses)' \in Nat
    BY <1>2, PausesCounted DEF CallInv
  <2> QED
    BY <1>1, <2>1, <2>2
<1>6. OverlapCostsTimeouts'
  BY <1>2, <1>4, <1>5, OverlapKept
<1> QED
  BY <1>2, <1>3, <1>6 DEF CallInv

(* As long as no pause is added it is enough that the wait goes on.        *)
LEMMA OverlapLasts ==
  ASSUME CallInv, Workflow!TypeOK',
         Workflow!Abandoned' \subseteq Workflow!Abandoned,
         waited <= waited', Workflow!Pauses' = Workflow!Pauses
  PROVE  OverlapCostsTimeouts'
<1>1. waited \in Nat /\ waited' \in Nat
  BY DEF CallInv, Workflow!TypeOK
<1>2. Workflow!BackoffOf(Workflow!Pauses)' = Workflow!BackoffOf(Workflow!Pauses)
  BY DEF Workflow!BackoffOf
<1>3. Workflow!BackoffOf(Workflow!Pauses) \in Nat
  BY PausesCounted DEF CallInv
<1>4. waited + Workflow!BackoffOf(Workflow!Pauses)' <= waited' + Workflow!BackoffOf(Workflow!Pauses)
  BY <1>1, <1>2, <1>3
<1> QED
  BY <1>4, OverlapKept

LEMMA RespondKeeps == ASSUME CallInv, NEW seconds \in 0..TimeoutSeconds, Workflow!Respond(seconds) PROVE CallInv'
<1> USE DEF Workflow!Respond
<1>1. waited \in Nat /\ waited' \in Nat /\ waited <= waited' /\ attempt \in Nat /\ attempt >= 1
  BY Constants DEF CallInv, Workflow!TypeOK, Attempts
<1>2. Workflow!TypeOK'
  BY <1>1, PhaseIs DEF CallInv, Workflow!TypeOK
<1>3. Attempts'
  BY DEF CallInv, Attempts
<1>4. Workflow!Abandoned' \subseteq Workflow!Abandoned
  <2>1. ASSUME NEW r \in Workflow!Abandoned' PROVE r \in Workflow!Abandoned
    <3>1. r \in running /\ r[1] = call /\ r # <<call, attempt>>
      BY DEF Workflow!Abandoned
    <3>2. r = <<r[1], r[2]>>
      BY <3>1 DEF CallInv, Workflow!TypeOK
    <3> QED
      BY <3>1, <3>2 DEF Workflow!Abandoned
  <2> QED
    BY <2>1
<1>5. Workflow!Pauses' = Workflow!Pauses
  BY <1>1 DEF Workflow!Pauses
<1>6. OverlapCostsTimeouts'
  BY <1>1, <1>2, <1>4, <1>5, OverlapLasts
<1> QED
  BY <1>2, <1>3, <1>6 DEF CallInv

LEMMA RetryKeeps == ASSUME CallInv, Workflow!Retry PROVE CallInv'
<1> USE DEF Workflow!Retry
<1>1. waited \in Nat /\ waited' \in Nat /\ waited <= waited' /\ attempt \in 1..MaxRetries
      /\ call \in 1..MaxCalls /\ attempt + 1 \in 1..(MaxRetries + 1)
  BY Constants DEF CallInv, Workflow!TypeOK, Attempts
<1>2. Workflow!TypeOK'
  BY <1>1, PhaseIs, Constants DEF CallInv, Workflow!TypeOK
<1>3. ASSUME NEW r \in running PROVE r[1] \in Nat /\ r[2] \in Nat
  BY Constants DEF CallInv, Workflow!TypeOK
<1>4. Attempts'
  <2>1. ASSUME NEW r \in running' PROVE r[1] <= call /\ (r[1] = call => r[2] <= attempt + 1)
    <3>1. CASE r \in running
      BY <1>1, <1>3, <3>1 DEF CallInv, Attempts
    <3>2. CASE r = <<call, attempt + 1>>
      BY <1>1, <3>2
    <3> QED
      BY <3>1, <3>2
  <2> QED
    BY <1>1, <2>1 DEF Attempts
<1>5. Workflow!Abandoned' \subseteq Workflow!Abandoned
  BY DEF Workflow!Abandoned
<1>6. Workflow!Pauses' = Workflow!Pauses
  BY <1>1 DEF Workflow!Pauses
<1>7. OverlapCostsTimeouts'
  BY <1>1, <1>2, <1>5, <1>6, OverlapLasts
<1> QED
  BY <1>2, <1>4, <1>7 DEF CallInv

LEMMA ParseKeeps == ASSUME CallInv, Workflow!Parse PROVE CallInv'
<1> USE DEF Workflow!Parse
<1>1. waited \in Nat /\ waited <= waited'
  BY DEF CallInv, Workflow!TypeOK
<1>2. Workflow!TypeOK'
  BY PhaseIs DEF CallInv, Workflow!TypeOK
<1>3. Attempts'
  BY DEF CallInv, Attempts
<1>4. Workflow!Abandoned' \subseteq Workflow!Abandoned
  BY DEF Workflow!Abandoned
<1>5. Workflow!Pauses' = Workflow!Pauses
  BY DEF Workflow!Pauses
<1>6. OverlapCostsTimeouts'
  BY <1>1, <1>2, <1>4, <1>5, OverlapLasts
<1> QED
  BY <1>2, <1>3, <1>6 DEF CallInv

LEMMA AbandonedEndsKeeps == ASSUME CallInv, Workflow!AbandonedEnds PROVE CallInv'
<1> USE DEF Workflow!AbandonedEnds
<1>1. waited \in Nat /\ waited <= waited'
  BY DEF CallInv, Workflow!TypeOK
<1>2. Workflow!TypeOK'
  BY PhaseIs DEF CallInv, Workflow!TypeOK
<1>3. Attempts'
  BY DEF CallInv, Attempts
<1>4. Workflow!Abandoned' \subseteq Workflow!Abandoned
  BY DEF Workflow!Abandoned
<1>5. Workflow!Pauses' = Workflow!Pauses
  BY DEF Workflow!Pauses
<1>6. OverlapCostsTimeouts'
  BY <1>1, <1>2, <1>4, <1>5, OverlapLasts
<1> QED
  BY <1>2, <1>3, <1>6 DEF CallInv

LEMMA RunKeeps == ASSUME CallInv, Workflow!RunWorkflow \/ Workflow!AbandonedEnds PROVE CallInv'
BY RespondKeeps, FailKeeps, TimeOutKeeps, RetryKeeps, ParseKeeps, AbandonedEndsKeeps
   DEF Workflow!RunWorkflow

(* The process dies with its threads; a pause begun counts no longer. *)
LEMMA CrashKeeps == ASSUME CallInv, Crash PROVE CallInv'
<1> USE DEF Crash, End
<1>1. waited \in Nat /\ waited' = waited /\ waited <= waited'
      /\ phase' = "idle" /\ attempt \in Nat /\ attempt' = attempt
  BY Constants DEF CallInv, Workflow!TypeOK
<1>2. Workflow!TypeOK'
  BY PhaseIs DEF CallInv, Workflow!TypeOK
<1>3. Attempts'
  BY DEF CallInv, Attempts
<1>4. Workflow!Abandoned' \subseteq Workflow!Abandoned
  BY DEF Workflow!Abandoned
<1> HIDE DEF Crash, End
<1>5. CASE Workflow!Pauses' = Workflow!Pauses
  BY <1>1, <1>2, <1>3, <1>4, <1>5, OverlapLasts DEF CallInv
<1>6. CASE Workflow!Pauses' # Workflow!Pauses
  <2>1. Workflow!Pauses' \in Nat /\ Workflow!Pauses = Workflow!Pauses' + 1
    BY <1>1, <1>6 DEF Workflow!Pauses
  <2>2. Workflow!BackoffOf(Workflow!Pauses)' = Workflow!BackoffOf(Workflow!Pauses')
    BY DEF Workflow!BackoffOf
  <2>3. ASSUME NEW p \in Nat
        PROVE  /\ Workflow!BackoffOf(p) \in Nat /\ Workflow!BackoffOf(p + 1) \in Nat
               /\ Workflow!BackoffOf(p) <= Workflow!BackoffOf(p + 1)
    BY PausesGrow
  <2>4. waited + Workflow!BackoffOf(Workflow!Pauses)' <= waited' + Workflow!BackoffOf(Workflow!Pauses)
    <3> DEFINE p == Workflow!Pauses'
    <3> HIDE DEF p
    <3>1. p \in Nat /\ Workflow!Pauses = p + 1
      BY <2>1 DEF p
    <3>2. Workflow!BackoffOf(Workflow!Pauses)' = Workflow!BackoffOf(p)
      BY <2>2 DEF p
    <3> QED
      BY <1>1, <2>3, <3>1, <3>2
  <2> QED
    BY <1>2, <1>3, <1>4, <2>4, OverlapKept DEF CallInv
<1> QED
  BY <1>5, <1>6

LEMMA IdleCallKeeps == CallInv /\ UNCHANGED callVars => CallInv'
<1>1. ASSUME UNCHANGED callVars PROVE Workflow!TypeOK' <=> Workflow!TypeOK
  BY <1>1 DEF callVars, Workflow!TypeOK
<1>2. ASSUME UNCHANGED callVars PROVE Attempts' <=> Attempts
  BY <1>2 DEF callVars, Attempts
<1>3. ASSUME UNCHANGED callVars PROVE OverlapCostsTimeouts' <=> OverlapCostsTimeouts
  <2>1. Workflow!Abandoned' = Workflow!Abandoned /\ Workflow!Pauses' = Workflow!Pauses
        /\ waited' = waited
    BY <1>3 DEF callVars, Workflow!Abandoned, Workflow!Pauses
  <2>2. Workflow!BackoffOf(Workflow!Pauses)' = Workflow!BackoffOf(Workflow!Pauses)
    BY <2>1 DEF Workflow!BackoffOf
  <2> QED
    BY <2>1, <2>2, SameCardinality
<1> QED
  BY <1>1, <1>2, <1>3 DEF CallInv

(***************************************************************************)
(* The thread                                                              *)
(***************************************************************************)
(* TypeOK without what it says of the client. *)
OwnTypeOK ==
  /\ backend \in Backend
  /\ job \in JobSpace
  /\ number \in 0..MaxJobs
  /\ step \in Step
  /\ outcome \in Outcome
  /\ frame \in 0..job.frames
  /\ temps \subseteq 1..number /\ spoiled \subseteq 1..number
  /\ faults \subseteq {"download", "disk", "decode", "read", "model", "workflow", "artifacts",
                       "mapping"}
  /\ crashes \in 0..MaxCrashes

(* Where the thread is tells what has been ruled out on the way; until the *)
(* job ends nothing has gone wrong but a call that raised, or a read that  *)
(* was taken for the end of the video.                                     *)
OnTheWay ==
  /\ Workflow!Busy => step = "workflow"
  /\ step # "idle" => number >= 1 /\ outcome = "none"
  /\ step \notin {"idle", "workflow", "artifacts", "mapping"} => faults = {}
  /\ step \in {"artifacts", "mapping"} =>
       /\ faults \subseteq {"read"}
       /\ "read" \in faults => VideoPath
  /\ step = "workflow" =>
       /\ faults = IF phase = "raised" THEN {"workflow"} ELSE {}
       /\ phase # "idle" /\ backend = "roboflow" /\ ~Unsupported
       /\ VideoPath => frame < job.frames
  /\ step = "url" => UrlPath /\ job.url = "https"
  /\ step \in {"media", "image", "harness", "video", "frames", "artifacts"} =>
       ~UrlPath /\ job.url # "bad"
  /\ step \in {"image", "video", "frames", "artifacts"} => backend # "harness"
  /\ step \in {"image", "harness"} => ~IsVideo
  /\ step \in {"video", "frames", "artifacts"} => IsVideo
  /\ step = "mapping" => ~Unsupported
  /\ step \in {"artifacts", "mapping"} /\ VideoPath =>
       (frame < job.frames <=> "read" \in faults)

(* The steps at which the thread has a temporary file. *)
HoldsFile ==
  step \in {"harness", "video", "frames", "artifacts"} \/ (step = "workflow" /\ VideoPath)

Files == temps \subseteq spoiled \cup (IF HoldsFile THEN {number} ELSE {})

ThreadInv == OwnTypeOK /\ OnTheWay /\ Files /\ OutcomeMatchesFaults

IInv == ThreadInv /\ CallInv

LEMMA Steps ==
  Step = {"idle", "start", "url", "media", "image", "harness", "video", "frames",
          "artifacts", "workflow", "mapping"}
BY DEF Step

(* What is fixed by the job and the backend stays as it is. *)
LEMMA JobFixed ==
  ASSUME UNCHANGED <<backend, job>>
  PROVE  /\ IsVideo' <=> IsVideo
         /\ UrlPath' <=> UrlPath
         /\ VideoPath' <=> VideoPath
         /\ Unsupported' <=> Unsupported
BY DEF IsVideo, UrlPath, VideoPath, Unsupported

LEMMA JobFacts ==
  ASSUME OwnTypeOK
  PROVE  /\ job.frames \in Nat /\ frame \in Nat /\ frame <= job.frames
         /\ number \in Nat
         /\ UrlPath => job.media = "Image"
         /\ VideoPath <=> IsVideo /\ ~UrlPath
         /\ Unsupported <=> \/ job.url = "bad"
                            \/ backend = "harness" /\ IsVideo
                            \/ UrlPath /\ (job.url = "http" \/ backend = "local")
         /\ job.url \in {"https", "http", "bad"}
         /\ backend \in {"harness", "roboflow", "local"}
<1>1. /\ job.frames \in Nat /\ frame \in Nat /\ frame <= job.frames
      /\ number \in Nat
      /\ job.url \in {"https", "http", "bad"}
      /\ backend \in {"harness", "roboflow", "local"}
  BY AnalysisAssumption DEF AnalysisAssumption, OwnTypeOK, JobSpace
<1>2. UrlPath => job.media = "Image"
  BY DEF UrlPath
<1>3. VideoPath <=> IsVideo /\ ~UrlPath
  BY DEF VideoPath
<1>4. Unsupported <=> \/ job.url = "bad"
                      \/ backend = "harness" /\ IsVideo
                      \/ UrlPath /\ (job.url = "http" \/ backend = "local")
  BY DEF Unsupported
<1> QED
  BY <1>1, <1>2, <1>3, <1>4

LEMMA ResolveUrlKeeps == ThreadInv /\ ResolveUrl => ThreadInv'
<1> SUFFICES ASSUME ThreadInv, ResolveUrl PROVE ThreadInv'
  OBVIOUS
<1> USE DEF ResolveUrl, At, End, Keep, GoOn
<1>1. UNCHANGED <<backend, job, number, crashes>>
  OBVIOUS
<1>2. OwnTypeOK'
  BY <1>1, JobFacts, Steps DEF ThreadInv, OwnTypeOK, Outcome
<1>3. OnTheWay'
  BY <1>1, JobFixed, JobFacts DEF ThreadInv, OnTheWay, callVars, Workflow!Busy
<1>4. Files'
  BY <1>1, JobFixed, JobFacts DEF ThreadInv, OnTheWay, Files, HoldsFile
<1>5. OutcomeMatchesFaults'
  <2>1. \/ UNCHANGED <<outcome, faults>>
        \/ outcome' = "failure" /\ (Unsupported \/ faults' # {})
    BY JobFacts DEF ThreadInv
  <2> QED
    BY <1>1, <2>1, JobFixed DEF ThreadInv, OnTheWay, OutcomeMatchesFaults
<1> QED
  BY <1>2, <1>3, <1>4, <1>5 DEF ThreadInv

LEMMA DownloadKeeps == ThreadInv /\ Download => ThreadInv'
<1> SUFFICES ASSUME ThreadInv, Download PROVE ThreadInv'
  OBVIOUS
<1> USE DEF Download, At, End, Keep, GoOn, Raise
<1>1. UNCHANGED <<backend, job, number, crashes>>
  OBVIOUS
<1>2. OwnTypeOK'
  BY <1>1, JobFacts, Steps DEF ThreadInv, OwnTypeOK, Outcome
<1>3. OnTheWay'
  BY <1>1, JobFixed, JobFacts DEF ThreadInv, OnTheWay, callVars, Workflow!Busy
<1>4. Files'
  BY <1>1, JobFixed, JobFacts DEF ThreadInv, OnTheWay, Files, HoldsFile
<1>5. OutcomeMatchesFaults'
  <2>1. \/ UNCHANGED <<outcome, faults>>
        \/ outcome' = "failure" /\ (Unsupported \/ faults' # {})
    BY JobFacts DEF ThreadInv
  <2> QED
    BY <1>1, <2>1, JobFixed DEF ThreadInv, OnTheWay, OutcomeMatchesFaults
<1> QED
  BY <1>2, <1>3, <1>4, <1>5 DEF ThreadInv

LEMMA AnalyzeUrlKeeps == ThreadInv /\ AnalyzeUrl => ThreadInv'
<1> SUFFICES ASSUME ThreadInv, AnalyzeUrl PROVE ThreadInv'
  OBVIOUS
<1> USE DEF AnalyzeUrl, At, End, Keep, GoOn, CallWorkflow, Workflow!Begin
<1>1. UNCHANGED <<backend, job, number, crashes>>
  OBVIOUS
<1>2. OwnTypeOK'
  BY <1>1, JobFacts, Steps DEF ThreadInv, OwnTypeOK, Outcome
<1>3. OnTheWay'
  BY <1>1, JobFixed, JobFacts DEF ThreadInv, OnTheWay, callVars, Workflow!Busy
<1>4. Files'
  BY <1>1, JobFixed, JobFacts DEF ThreadInv, OnTheWay, Files, HoldsFile
<1>5. OutcomeMatchesFaults'
  BY <1>1, JobFixed, JobFacts DEF ThreadInv, OnTheWay, OutcomeMatchesFaults
<1> QED
  BY <1>2, <1>3, <1>4, <1>5 DEF ThreadInv

LEMMA RefuseVideoKeeps == ThreadInv /\ RefuseVideo => ThreadInv'
<1> SUFFICES ASSUME ThreadInv, RefuseVideo PROVE ThreadInv'
  OBVIOUS
<1> USE DEF RefuseVideo, At, End, Keep
<1>1. UNCHANGED <<backend, job, number, crashes>>
  OBVIOUS
<1>2. OwnTypeOK'
  BY <1>1, JobFacts, Steps DEF ThreadInv, OwnTypeOK, Outcome
<1>3. OnTheWay'
  BY <1>1, JobFixed, JobFacts DEF ThreadInv, OnTheWay, callVars, Workflow!Busy
<1>4. Files'
  BY <1>1, JobFixed, JobFacts DEF ThreadInv, OnTheWay, Files, HoldsFile
<1>5. OutcomeMatchesFaults'
  BY <1>1, JobFixed, JobFacts DEF ThreadInv, OnTheWay, OutcomeMatchesFaults
<1> QED
  BY <1>2, <1>3, <1>4, <1>5 DEF ThreadInv

LEMMA SaveTempKeeps == ThreadInv /\ SaveTemp => ThreadInv'
<1> SUFFICES ASSUME ThreadInv, SaveTemp PROVE ThreadInv'
  OBVIOUS
<1> USE DEF SaveTemp, At, End, GoOn, Raise
<1>1. UNCHANGED <<backend, job, number, crashes>>
  OBVIOUS
<1>2. OwnTypeOK'
  <2>1. number \in 1..number
    BY JobFacts DEF ThreadInv, OnTheWay
  <2>2. temps' \subseteq 1..number /\ spoiled' \subseteq 1..number
    BY <2>1 DEF ThreadInv, OwnTypeOK
  <2>3. step' \in Step /\ outcome' \in Outcome /\ frame' = frame
    BY Steps DEF ThreadInv, OwnTypeOK, Outcome
  <2>4. faults' \subseteq faults \cup {"disk"}
    OBVIOUS
  <2> QED
    BY <1>1, <2>2, <2>3, <2>4 DEF ThreadInv, OwnTypeOK
<1>3. OnTheWay'
  BY <1>1, JobFixed, JobFacts DEF ThreadInv, OnTheWay, callVars, Workflow!Busy
<1>4. Files'
  BY <1>1, JobFixed, JobFacts DEF ThreadInv, OnTheWay, Files, HoldsFile
<1>5. OutcomeMatchesFaults'
  BY <1>1, JobFixed, JobFacts DEF ThreadInv, OnTheWay, OutcomeMatchesFaults
<1> QED
  BY <1>2, <1>3, <1>4, <1>5 DEF ThreadInv

LEMMA RunHarnessKeeps == ThreadInv /\ RunHarness => ThreadInv'
<1> SUFFICES ASSUME ThreadInv, RunHarness PROVE ThreadInv'
  OBVIOUS
<1> USE DEF RunHarness, At, End, GoOn, Raise, CleanUp
<1>1. UNCHANGED <<backend, job, number, crashes>>
  OBVIOUS
<1>2. OwnTypeOK'
  BY <1>1, JobFacts, Steps DEF ThreadInv, OwnTypeOK, Outcome
<1>3. OnTheWay'
  BY <1>1, JobFixed, JobFacts DEF ThreadInv, OnTheWay, callVars, Workflow!Busy
<1>4. Files'
  BY <1>1, JobFixed, JobFacts DEF ThreadInv, OnTheWay, Files, HoldsFile
<1>5. OutcomeMatchesFaults'
  BY <1>1, JobFixed, JobFacts DEF ThreadInv, OnTheWay, OutcomeMatchesFaults
<1> QED
  BY <1>2, <1>3, <1>4, <1>5 DEF ThreadInv

LEMMA DecodeImageKeeps == ThreadInv /\ DecodeImage => ThreadInv'
<1> SUFFICES ASSUME ThreadInv, DecodeImage PROVE ThreadInv'
  OBVIOUS
<1> USE DEF DecodeImage, At, End, Keep, GoOn, Raise
<1>1. UNCHANGED <<backend, job, number, crashes>>
  OBVIOUS
<1>2. OwnTypeOK'
  BY <1>1, JobFacts, Steps DEF ThreadInv, OwnTypeOK, Outcome
<1>3. OnTheWay'
  BY <1>1, JobFixed, JobFacts DEF ThreadInv, OnTheWay, callVars, Workflow!Busy
<1>4. Files'
  BY <1>1, JobFixed, JobFacts DEF ThreadInv, OnTheWay, Files, HoldsFile
<1>5. OutcomeMatchesFaults'
  BY <1>1, JobFixed, JobFacts DEF ThreadInv, OnTheWay, OutcomeMatchesFaults
<1> QED
  BY <1>2, <1>3, <1>4, <1>5 DEF ThreadInv

LEMMA DetectImageKeeps == ThreadInv /\ DetectImage => ThreadInv'
<1> SUFFICES ASSUME ThreadInv, DetectImage PROVE ThreadInv'
  OBVIOUS
<1> USE DEF DetectImage, At, End, Keep, GoOn, Raise, CallWorkflow, Workflow!Begin
<1>1. UNCHANGED <<backend, job, number, crashes>>
  OBVIOUS
<1>2. OwnTypeOK'
  BY <1>1, JobFacts, Steps DEF ThreadInv, OwnTypeOK, Outcome
<1>3. OnTheWay'
  BY <1>1, JobFixed, JobFacts DEF ThreadInv, OnTheWay, callVars, Workflow!Busy
<1>4. Files'
  BY <1>1, JobFixed, JobFacts DEF ThreadInv, OnTheWay, Files, HoldsFile
<1>5. OutcomeMatchesFaults'
  BY <1>1, JobFixed, JobFacts DEF ThreadInv, OnTheWay, OutcomeMatchesFaults
<1> QED
  BY <1>2, <1>3, <1>4, <1>5 DEF ThreadInv

LEMMA OpenVideoKeeps == ThreadInv /\ OpenVideo => ThreadInv'
<1> SUFFICES ASSUME ThreadInv, OpenVideo PROVE ThreadInv'
  OBVIOUS
<1> USE DEF OpenVideo, At, End, GoOn, Raise, CleanUp
<1>1. UNCHANGED <<backend, job, number, crashes>>
  OBVIOUS
<1>2. OwnTypeOK'
  BY <1>1, JobFacts, Steps DEF ThreadInv, OwnTypeOK, Outcome
<1>3. OnTheWay'
  BY <1>1, JobFixed, JobFacts DEF ThreadInv, OnTheWay, callVars, Workflow!Busy
<1>4. Files'
  BY <1>1, JobFixed, JobFacts DEF ThreadInv, OnTheWay, Files, HoldsFile
<1>5. OutcomeMatchesFaults'
  BY <1>1, JobFixed, JobFacts DEF ThreadInv, OnTheWay, OutcomeMatchesFaults
<1> QED
  BY <1>2, <1>3, <1>4, <1>5 DEF ThreadInv

LEMMA DetectFrameKeeps == ThreadInv /\ DetectFrame => ThreadInv'
<1> SUFFICES ASSUME ThreadInv, DetectFrame PROVE ThreadInv'
  OBVIOUS
<1> USE DEF DetectFrame, At, End, GoOn, Raise, CleanUp, CallWorkflow, Workflow!Begin
<1>1. UNCHANGED <<backend, job, number, crashes>>
  OBVIOUS
<1>2. OwnTypeOK'
  <2>1. frame' \in 0..job.frames
    BY JobFacts DEF ThreadInv
  <2>2. temps' \subseteq temps /\ spoiled' = spoiled
    OBVIOUS
  <2>3. step' \in Step /\ outcome' \in Outcome
    BY Steps DEF ThreadInv, OwnTypeOK, Outcome
  <2>4. faults' \subseteq faults \cup {"model"}
    OBVIOUS
  <2> QED
    BY <1>1, <2>1, <2>2, <2>3, <2>4 DEF ThreadInv, OwnTypeOK
<1>3. OnTheWay'
  BY <1>1, JobFixed, JobFacts DEF ThreadInv, OnTheWay, callVars, Workflow!Busy
<1>4. Files'
  BY <1>1, JobFixed, JobFacts DEF ThreadInv, OnTheWay, Files, HoldsFile
<1>5. OutcomeMatchesFaults'
  BY <1>1, JobFixed, JobFacts DEF ThreadInv, OnTheWay, OutcomeMatchesFaults
<1> QED
  BY <1>2, <1>3, <1>4, <1>5 DEF ThreadInv

LEMMA WorkflowEndsKeeps == ThreadInv /\ WorkflowEnds => ThreadInv'
<1> SUFFICES ASSUME ThreadInv, WorkflowEnds PROVE ThreadInv'
  OBVIOUS
<1> USE DEF WorkflowEnds, At, End, GoOn, CleanUp
<1>1. UNCHANGED <<backend, job, number, crashes>>
  OBVIOUS
<1>2. OwnTypeOK'
  <2>1. frame' \in 0..job.frames
    BY JobFacts DEF ThreadInv, OnTheWay
  <2>2. temps' \subseteq temps /\ spoiled' = spoiled /\ faults' = faults
    OBVIOUS
  <2>3. step' \in Step /\ outcome' \in Outcome
    BY Steps DEF ThreadInv, OwnTypeOK, Outcome
  <2> QED
    BY <1>1, <2>1, <2>2, <2>3 DEF ThreadInv, OwnTypeOK
<1>3. OnTheWay'
  BY <1>1, JobFixed, JobFacts DEF ThreadInv, OnTheWay, callVars, Workflow!Busy
<1>4. Files'
  BY <1>1, JobFixed, JobFacts DEF ThreadInv, OnTheWay, Files, HoldsFile
<1>5. OutcomeMatchesFaults'
  BY <1>1, JobFixed, JobFacts DEF ThreadInv, OnTheWay, OutcomeMatchesFaults
<1> QED
  BY <1>2, <1>3, <1>4, <1>5 DEF ThreadInv

LEMMA EndOfVideoKeeps == ThreadInv /\ EndOfVideo => ThreadInv'
<1> SUFFICES ASSUME ThreadInv, EndOfVideo PROVE ThreadInv'
  OBVIOUS
<1> USE DEF EndOfVideo, At, End, Keep, GoOn
<1>1. UNCHANGED <<backend, job, number, crashes>>
  OBVIOUS
<1>2. OwnTypeOK'
  BY <1>1, JobFacts, Steps DEF ThreadInv, OwnTypeOK, Outcome
<1>3. OnTheWay'
  BY <1>1, JobFixed, JobFacts DEF ThreadInv, OnTheWay, callVars, Workflow!Busy
<1>4. Files'
  BY <1>1, JobFixed, JobFacts DEF ThreadInv, OnTheWay, Files, HoldsFile
<1>5. OutcomeMatchesFaults'
  BY <1>1, JobFixed, JobFacts DEF ThreadInv, OnTheWay, OutcomeMatchesFaults
<1> QED
  BY <1>2, <1>3, <1>4, <1>5 DEF ThreadInv

LEMMA ReadFailsKeeps == ThreadInv /\ ReadFails => ThreadInv'
<1> SUFFICES ASSUME ThreadInv, ReadFails PROVE ThreadInv'
  OBVIOUS
<1> USE DEF ReadFails, At, End, Keep
<1>1. UNCHANGED <<backend, job, number, crashes>>
  OBVIOUS
<1>2. OwnTypeOK'
  BY <1>1, JobFacts, Steps DEF ThreadInv, OwnTypeOK, Outcome
<1>3. OnTheWay'
  BY <1>1, JobFixed, JobFacts DEF ThreadInv, OnTheWay, callVars, Workflow!Busy
<1>4. Files'
  BY <1>1, JobFixed, JobFacts DEF ThreadInv, OnTheWay, Files, HoldsFile
<1>5. OutcomeMatchesFaults'
  BY <1>1, JobFixed, JobFacts DEF ThreadInv, OnTheWay, OutcomeMatchesFaults
<1> QED
  BY <1>2, <1>3, <1>4, <1>5 DEF ThreadInv

LEMMA EnrichDetectionsKeeps == ThreadInv /\ EnrichDetections => ThreadInv'
<1> SUFFICES ASSUME ThreadInv, EnrichDetections PROVE ThreadInv'
  OBVIOUS
<1> USE DEF EnrichDetections, At, End, GoOn, Raise, CleanUp
<1>1. UNCHANGED <<backend, job, number, crashes>>
  OBVIOUS
<1>2. OwnTypeOK'
  BY <1>1, JobFacts, Steps DEF ThreadInv, OwnTypeOK, Outcome
<1>3. OnTheWay'
  BY <1>1, JobFixed, JobFacts DEF ThreadInv, OnTheWay, callVars, Workflow!Busy
<1>4. Files'
  BY <1>1, JobFixed, JobFacts DEF ThreadInv, OnTheWay, Files, HoldsFile
<1>5. OutcomeMatchesFaults'
  BY <1>1, JobFixed, JobFacts DEF ThreadInv, OnTheWay, OutcomeMatchesFaults
<1> QED
  BY <1>2, <1>3, <1>4, <1>5 DEF ThreadInv

LEMMA BuildResultKeeps == ThreadInv /\ BuildResult => ThreadInv'
<1> SUFFICES ASSUME ThreadInv, BuildResult PROVE ThreadInv'
  OBVIOUS
<1> USE DEF BuildResult, At, End, Keep
<1>1. UNCHANGED <<backend, job, number, crashes>>
  OBVIOUS
<1>2. OwnTypeOK'
  BY <1>1, JobFacts, Steps DEF ThreadInv, OwnTypeOK, Outcome
<1>3. OnTheWay'
  BY <1>1, JobFixed, JobFacts DEF ThreadInv, OnTheWay, callVars, Workflow!Busy
<1>4. Files'
  BY <1>1, JobFixed, JobFacts DEF ThreadInv, OnTheWay, Files, HoldsFile
<1>5. OutcomeMatchesFaults'
  BY <1>1, JobFixed, JobFacts DEF ThreadInv, OnTheWay, OutcomeMatchesFaults
<1> QED
  BY <1>2, <1>3, <1>4, <1>5 DEF ThreadInv

LEMMA TakeKeeps == ASSUME ThreadInv, NEW j \in JobSpace, Take(j) PROVE ThreadInv'
<1> USE DEF Take
<1>1. number \in Nat /\ number' \in 1..MaxJobs /\ j.frames \in Nat
  BY AnalysisAssumption DEF AnalysisAssumption, ThreadInv, OwnTypeOK, JobSpace
<1>2. temps' \subseteq 1..number' /\ spoiled' \subseteq 1..number'
  BY <1>1 DEF ThreadInv, OwnTypeOK
<1>3. OwnTypeOK'
  BY <1>1, <1>2, Steps DEF ThreadInv, OwnTypeOK, Outcome
<1>4. OnTheWay'
  BY <1>1 DEF ThreadInv, OnTheWay, callVars, Workflow!Busy
<1>5. Files'
  BY DEF ThreadInv, Files, HoldsFile
<1>6. OutcomeMatchesFaults'
  BY DEF OutcomeMatchesFaults
<1> QED
  BY <1>3, <1>4, <1>5, <1>6 DEF ThreadInv

(* While the thread waits for the workflow only the call goes on; it is    *)
(* the first thing to go wrong in this job when it raises.                 *)
LEMMA WaitKeeps == ASSUME ThreadInv, WorkflowStep PROVE ThreadInv'
<1>1. /\ UNCHANGED <<backend, job, number, step, outcome, frame, temps, spoiled, crashes>>
      /\ faults' = IF phase # "raised" /\ phase' = "raised" THEN faults \cup {"workflow"} ELSE faults
  BY DEF WorkflowStep, Meanwhile
<1>2. \/ step = "workflow" /\ phase # "raised" /\ phase' # "idle"
      \/ phase' = phase
  BY DEF WorkflowStep, ThreadInv, OnTheWay, Workflow!Busy, Workflow!RunWorkflow,
         Workflow!AbandonedEnds, Workflow!Respond, Workflow!Fail, Workflow!TimeOut,
         Workflow!Retry, Workflow!Parse, Workflow!GiveUpOrSleep
<1>3. OwnTypeOK'
  BY <1>1 DEF ThreadInv, OwnTypeOK
<1>4. OnTheWay'
  BY <1>1, <1>2, JobFixed DEF ThreadInv, OnTheWay, Workflow!Busy
<1>5. Files'
  BY <1>1, JobFixed DEF ThreadInv, Files, HoldsFile
<1>6. OutcomeMatchesFaults'
  BY <1>1, <1>2, JobFixed DEF ThreadInv, OnTheWay, OutcomeMatchesFaults
<1> QED
  BY <1>3, <1>4, <1>5, <1>6 DEF ThreadInv

LEMMA CrashKeepsThread == ASSUME ThreadInv, Crash PROVE ThreadInv'
<1> USE DEF Crash, End
<1>1. number \in 1..number /\ crashes' \in 0..MaxCrashes
  BY JobFacts, AnalysisAssumption DEF AnalysisAssumption, ThreadInv, OwnTypeOK, OnTheWay
<1>2. OwnTypeOK'
  BY <1>1, Steps DEF ThreadInv, OwnTypeOK, Outcome
<1>3. OnTheWay'
  BY DEF OnTheWay, Workflow!Busy
<1>4. Files'
  BY DEF ThreadInv, Files, HoldsFile
<1>5. OutcomeMatchesFaults'
  BY DEF OutcomeMatchesFaults
<1> QED
  BY <1>2, <1>3, <1>4, <1>5 DEF ThreadInv

LEMMA IdleThreadKeeps == ASSUME ThreadInv, UNCHANGED vars PROVE ThreadInv'
<1>1. UNCHANGED <<ownVars, phase>>
  BY DEF vars, callVars
<1>2. OwnTypeOK'
  BY <1>1 DEF ownVars, ThreadInv, OwnTypeOK
<1>3. OnTheWay'
  BY <1>1, JobFixed DEF ownVars, ThreadInv, OnTheWay, Workflow!Busy
<1>4. Files'
  BY <1>1, JobFixed DEF ownVars, ThreadInv, Files, HoldsFile
<1>5. OutcomeMatchesFaults'
  BY <1>1, JobFixed DEF ownVars, ThreadInv, OutcomeMatchesFaults
<1> QED
  BY <1>2, <1>3, <1>4, <1>5 DEF ThreadInv

(***************************************************************************)
(* Both together                                                           *)
(***************************************************************************)
(* A step of the analysis either calls the workflow or leaves it alone. *)
LEMMA AnalyzeKeepsCall == ASSUME CallInv, Analyze PROVE CallInv'
<1>1. Workflow!Begin \/ UNCHANGED callVars
  BY DEF Analyze, ResolveUrl, Download, AnalyzeUrl, RefuseVideo, SaveTemp, RunHarness,
         DecodeImage, DetectImage, OpenVideo, DetectFrame, WorkflowEnds, EndOfVideo,
         ReadFails, EnrichDetections, BuildResult, CallWorkflow, Keep
<1> QED
  BY <1>1, BeginKeeps, IdleCallKeeps

LEMMA InitHolds == Init => IInv
<1> SUFFICES ASSUME Init PROVE IInv
  OBVIOUS
<1>1. OwnTypeOK
  <2>1. job \in JobSpace
    BY AnalysisAssumption DEF AnalysisAssumption, Init, JobSpace
  <2>2. job.frames = 0 /\ 0 \in 0..0
    BY DEF Init
  <2> QED
    BY <2>1, <2>2, Steps, AnalysisAssumption DEF AnalysisAssumption, Init, OwnTypeOK, Outcome
<1>2. OnTheWay /\ Files /\ OutcomeMatchesFaults
  BY DEF Init, Workflow!Init, OnTheWay, Workflow!Busy, Files, OutcomeMatchesFaults
<1>3. Workflow!TypeOK /\ Attempts
  BY Constants, PhaseIs DEF Init, Workflow!Init, Workflow!TypeOK, Attempts
<1>4. OverlapCostsTimeouts
  <2>1. Workflow!Abandoned = {} /\ Workflow!Pauses = 0 /\ waited = 0
    BY DEF Init, Workflow!Init, Workflow!Abandoned, Workflow!Pauses
  <2>2. Workflow!BackoffOf(Workflow!Pauses) = 0
    BY <2>1, DelayDoubles, Constants DEF Workflow!BackoffOf
  <2>3. Cardinality(Workflow!Abandoned) * TimeoutSeconds = 0
    BY <2>1, FS_EmptySet, Constants
  <2> QED
    BY <2>1, <2>2, <2>3, SameCardinality
<1> QED
  BY <1>1, <1>2, <1>3, <1>4 DEF IInv, ThreadInv, CallInv

LEMMA NextPreserves == IInv /\ [Next]_vars => IInv'
<1> SUFFICES ASSUME IInv, [Next]_vars PROVE IInv'
  OBVIOUS
<1> USE DEF IInv
<1>1. ASSUME NEW j \in JobSpace, Take(j) PROVE IInv'
  <2>1. UNCHANGED callVars
    BY <1>1 DEF Take
  <2> QED
    BY <1>1, <2>1, TakeKeeps, IdleCallKeeps
<1>2. CASE Analyze
  <2>1. ThreadInv'
    BY <1>2, ResolveUrlKeeps, DownloadKeeps, AnalyzeUrlKeeps, RefuseVideoKeeps,
       SaveTempKeeps, RunHarnessKeeps, DecodeImageKeeps, DetectImageKeeps, OpenVideoKeeps,
       DetectFrameKeeps, WorkflowEndsKeeps, EndOfVideoKeeps, ReadFailsKeeps,
       EnrichDetectionsKeeps,
       BuildResultKeeps DEF Analyze
  <2> QED
    BY <1>2, <2>1, AnalyzeKeepsCall
<1>3. CASE WorkflowStep
  <2>1. Workflow!RunWorkflow \/ Workflow!AbandonedEnds
    BY <1>3 DEF WorkflowStep
  <2> QED
    BY <1>3, <2>1, WaitKeeps, RunKeeps
<1>4. CASE Crash
  BY <1>4, CrashKeepsThread, CrashKeeps
<1>5. CASE UNCHANGED vars
  <2>1. UNCHANGED callVars
    BY <1>5 DEF vars
  <2> QED
    BY <1>5, <2>1, IdleThreadKeeps, IdleCallKeeps
<1> QED
  BY <1>1, <1>2, <1>3, <1>4, <1>5 DEF Next

LEMMA SpecInvariant == Spec => []IInv
BY InitHolds, NextPreserves, PTL DEF Spec

(***************************************************************************)
(* Theorems                                                                *)
(***************************************************************************)
(* Type correctness of the thread and of the client in its hands; a call   *)
(* is under way only where analysis_runner.py and roboflow_detector.py     *)
(* wait for it.                                                            *)
THEOREM AnalysisTypeCorrect == Spec => []TypeOK
<1>1. IInv => TypeOK
  BY DEF IInv, ThreadInv, CallInv, OwnTypeOK, OnTheWay, TypeOK
<1> QED
  BY <1>1, SpecInvariant, PTL

(* A job succeeds exactly if its kind is supported and nothing went wrong  *)
(* but a read in the middle of a video, and then with the frames before it *)
(* only; without one, with every frame (roboflow_detector.py:187-202,      *)
(* analysis_runner.py, consumer.py:127-148).                               *)
THEOREM AnalysisOutcomeMatchesFaults == Spec => []OutcomeMatchesFaults
<1>1. IInv => OutcomeMatchesFaults
  BY DEF IInv, ThreadInv
<1> QED
  BY <1>1, SpecInvariant, PTL

(* Whatever fails, the temporary file goes with its job, unless the        *)
(* process crashed or the write itself failed (analysis_runner.py:108-110, *)
(* video_processor.py:67-69).                                              *)
THEOREM AnalysisTempFilesAccounted == Spec => []TempFilesAccounted
<1>1. IInv => TempFilesAccounted
  BY DEF IInv, ThreadInv, Files, HoldsFile, TempFilesAccounted
<1> QED
  BY <1>1, SpecInvariant, PTL

(* For any timeout, delay and number of retries: the attempts that run on  *)
(* although nobody waits for them have cost their caller a timeout each,   *)
(* besides the pauses between attempts                                     *)
(* (roboflow_workflow_client.py:308-365).                                  *)
THEOREM AnalysisOverlapCostsTimeouts == Spec => []OverlapCostsTimeouts
<1>1. IInv => OverlapCostsTimeouts
  BY DEF IInv, CallInv
<1> QED
  BY <1>1, SpecInvariant, PTL
=============================================================================
