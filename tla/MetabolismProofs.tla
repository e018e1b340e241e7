-------------------------- MODULE MetabolismProofs --------------------------
(***************************************************************************)
(* Proofs about Metabolism, for any thresholds and any readings.           *)
(***************************************************************************)
EXTENDS Metabolism, TLAPS

StressRun == Larger(sustained_stress_cycles, 1)
QuietRun  == Larger(sustained_relaxation_cycles, 1)

LEMMA RunLengths == StressRun \in Nat \ {0} /\ QuietRun \in Nat \ {0}
  BY ConfigAssumption DEF StressRun, QuietRun, Larger

\* The new counts stay below the length of a run, and a request is one of the
\* three actions.
LEMMA EvaluateTypes ==
  ASSUME NEW v, Evaluate(v),
         stress_cycles \in 0..(StressRun - 1), relaxation_cycles \in 0..(QuietRun - 1)
  PROVE  /\ stress_cycles' \in 0..(StressRun - 1)
         /\ relaxation_cycles' \in 0..(QuietRun - 1)
         /\ next' \in Actions
<1>1. CASE Stressed(v) /\ Relaxed(v)
  BY <1>1, RunLengths DEF Evaluate, CountedStress, CountedRelaxation, StressRun, QuietRun, Actions
<1>2. CASE Stressed(v) /\ ~ Relaxed(v)
  BY <1>2, RunLengths DEF Evaluate, CountedStress, CountedRelaxation, StressRun, QuietRun, Actions
<1>3. CASE ~ Stressed(v) /\ Relaxed(v)
  BY <1>3, RunLengths DEF Evaluate, CountedStress, CountedRelaxation, StressRun, QuietRun, Actions
<1>4. CASE ~ Stressed(v) /\ ~ Relaxed(v)
  BY <1>4, RunLengths DEF Evaluate, CountedStress, CountedRelaxation, StressRun, QuietRun, Actions
<1> QED BY <1>1, <1>2, <1>3, <1>4

LEMMA TypeStep == TypeOK /\ [Next]_vars => TypeOK'
<1> SUFFICES ASSUME TypeOK, [Next]_vars PROVE TypeOK'
  OBVIOUS
<1> USE DEF TypeOK
<1>1. CASE Collect
  <2>1. /\ stress_cycles' \in 0..(StressRun - 1)
        /\ relaxation_cycles' \in 0..(QuietRun - 1)
        /\ next' \in Actions
    BY <1>1, EvaluateTypes DEF Collect, StressRun, QuietRun
  <2>2. notifying' \in BOOLEAN /\ status' \in Actions /\ last' \in Actions \cup {"none"}
    BY <1>1, <2>1 DEF Collect
  <2>3. machine' \in Readings /\ previous_cpu' \in BOOLEAN
    BY <1>1 DEF Collect
  <2> QED BY <1>1, <2>1, <2>2, <2>3 DEF Collect, StressRun, QuietRun
<1>2. CASE FailToCollect
  BY <1>2 DEF FailToCollect, brain, calls
<1>3. CASE Delivered
  BY <1>3 DEF Delivered, Publish, brain
<1>4. CASE NotDelivered
  <2>1. late' \subseteq Actions
    BY <1>4 DEF NotDelivered
  <2> QED BY <1>4, <2>1 DEF NotDelivered, Publish, brain
<1>5. ASSUME NEW action \in late, Overdue(action) PROVE TypeOK'
  BY <1>5 DEF Overdue, brain
<1>6. ASSUME NEW v \in Readings, Load(v) PROVE TypeOK'
  BY <1>6 DEF Load, brain, calls
<1>7. CASE UNCHANGED vars
  BY <1>7 DEF vars, brain, calls
<1> QED BY <1>1, <1>2, <1>3, <1>4, <1>5, <1>6, <1>7 DEF Next

\* The counts stay below the length of a run, however the samples come.
THEOREM MonitorTypes == Spec => []TypeOK
<1>1. Init => TypeOK
  <2> SUFFICES ASSUME Init PROVE TypeOK
    OBVIOUS
  <2>1. stress_cycles \in 0..(StressRun - 1) /\ relaxation_cycles \in 0..(QuietRun - 1)
    BY RunLengths DEF Init
  <2> QED BY <2>1 DEF Init, TypeOK, Actions, StressRun, QuietRun
<1> QED BY <1>1, TypeStep, PTL DEF Spec

-----------------------------------------------------------------------------
(***************************************************************************)
(* The receiver.                                                           *)
(***************************************************************************)

\* Between two calls the gate, the decision and what is published are one, and
\* only a call that failed may still arrive.
InStep ==
    /\ last # "none" => last = next /\ HasWebhook
    /\ notifying => last # "none"
    /\ ~ notifying /\ last # "none" => status = next
    /\ ~ notifying /\ last # "none" /\ ~ missed => heard = next
    /\ ~ missed => late = {}

LEMMA InStepKept == TypeOK /\ InStep /\ [Next]_vars => InStep'
<1> SUFFICES ASSUME TypeOK, InStep, [Next]_vars PROVE InStep'
  OBVIOUS
<1> USE DEF InStep
<1>1. CASE Collect
  <2>1. next' # "none"
    BY <1>1, EvaluateTypes DEF Collect, TypeOK, Actions, StressRun, QuietRun
  <2>2. CASE HasWebhook
    BY <1>1, <2>1, <2>2 DEF Collect, should_notify
  <2>3. CASE ~ HasWebhook
    BY <1>1, <2>3 DEF Collect
  <2> QED BY <2>2, <2>3
<1>2. CASE FailToCollect
  BY <1>2 DEF FailToCollect, brain, calls
<1>3. CASE Delivered
  BY <1>3 DEF Delivered, Publish, brain
<1>4. CASE NotDelivered
  BY <1>4 DEF NotDelivered, Publish, brain
<1>5. ASSUME NEW action \in late, Overdue(action) PROVE InStep'
  BY <1>5 DEF Overdue, brain
<1>6. ASSUME NEW v \in Readings, Load(v) PROVE InStep'
  BY <1>6 DEF Load, brain, calls
<1>7. CASE UNCHANGED vars
  BY <1>7 DEF vars, brain, calls
<1> QED BY <1>1, <1>2, <1>3, <1>4, <1>5, <1>6, <1>7 DEF Next

\* Telling a receiver of changes only is enough, whatever the cycle counts.
THEOREM ReceiverKeptInformed == Spec => []ReceiverInformed
<1>1. Init => InStep
  BY DEF Init, InStep
<1>2. InStep => ReceiverInformed
  BY DEF InStep, ReceiverInformed
<1> QED BY <1>1, <1>2, InStepKept, MonitorTypes, PTL DEF Spec
-----------------------------------------------------------------------------
(***************************************************************************)
(* The requests.                                                           *)
(***************************************************************************)

Classes == {"stress", "quiet", "normal"}
Class(v) == IF Stressed(v) THEN "stress" ELSE IF Relaxed(v) THEN "quiet" ELSE "normal"
Window == Larger(1, Larger(sustained_stress_cycles, sustained_relaxation_cycles))

\* The last n elements of s are c.
Ends(s, c, n) ==
    /\ Len(s) >= n
    /\ \A i \in (Len(s) - n + 1)..Len(s) : s[i] = c

\* The run of c at the end of s has length n.
Run(s, c, n) == Ends(s, c, n) /\ ~ Ends(s, c, n + 1)

LEMMA WindowHoldsRuns == Window \in Nat /\ StressRun <= Window /\ QuietRun <= Window
  BY ConfigAssumption DEF Window, StressRun, QuietRun, Larger

LEMMA EndsShorter ==
  ASSUME NEW s \in Seq(Classes), NEW c, NEW n \in Nat, NEW k \in Nat, k <= n, Ends(s, c, n)
  PROVE  Ends(s, c, k)
  BY DEF Ends

LEMMA EndsAppend ==
  ASSUME NEW s \in Seq(Classes), NEW c \in Classes, NEW d \in Classes, NEW n \in Nat
  PROVE  Ends(Append(s, d), c, n + 1) <=> (d = c /\ Ends(s, c, n))
<1>1. ASSUME Ends(Append(s, d), c, n + 1) PROVE d = c /\ Ends(s, c, n)
  BY <1>1 DEF Ends
<1>2. ASSUME d = c, Ends(s, c, n) PROVE Ends(Append(s, d), c, n + 1)
  BY <1>2 DEF Ends
<1> QED BY <1>1, <1>2

LEMMA EndsTail ==
  ASSUME NEW s \in Seq(Classes), NEW c \in Classes, NEW n \in Nat, n < Len(s)
  PROVE  Ends(Tail(s), c, n) <=> Ends(s, c, n)
<1>1. Len(Tail(s)) = Len(s) - 1 /\ \A i \in 1..(Len(s) - 1) : Tail(s)[i] = s[i + 1]
  OBVIOUS
<1>2. ASSUME Ends(Tail(s), c, n) PROVE Ends(s, c, n)
  <2>1. SUFFICES ASSUME NEW i \in (Len(s) - n + 1)..Len(s) PROVE s[i] = c
    BY DEF Ends
  <2>2. i - 1 \in (Len(Tail(s)) - n + 1)..Len(Tail(s)) /\ i - 1 \in 1..(Len(s) - 1)
    BY <1>1
  <2>3. Tail(s)[i - 1] = c
    BY <1>2, <2>2 DEF Ends
  <2>4. s[(i - 1) + 1] = s[i]
    OBVIOUS
  <2> QED BY <1>1, <2>2, <2>3, <2>4
<1>3. ASSUME Ends(s, c, n) PROVE Ends(Tail(s), c, n)
  <2>1. Len(Tail(s)) >= n
    BY <1>1
  <2>2. ASSUME NEW i \in (Len(Tail(s)) - n + 1)..Len(Tail(s)) PROVE Tail(s)[i] = c
    <3>1. i + 1 \in (Len(s) - n + 1)..Len(s) /\ i \in 1..(Len(s) - 1)
      BY <1>1
    <3>2. s[i + 1] = c
      BY <1>3, <3>1 DEF Ends
    <3> QED BY <1>1, <3>1, <3>2
  <2> QED BY <2>1, <2>2 DEF Ends
<1> QED BY <1>2, <1>3

\* The last k elements of s, with k one more than w at most, do not need more
\* than the window of w.
LEMMA RunInWindow ==
  ASSUME NEW s \in Seq(Classes), NEW c \in Classes, NEW n \in Nat, NEW w \in Nat \ {0},
         Len(s) <= w + 1, n <= w, Run(s, c, n)
  PROVE  LET r == IF Len(s) > w THEN Tail(s) ELSE s
         IN  r \in Seq(Classes) /\ Len(r) <= w /\ Run(r, c, n)
<1>1. CASE Len(s) <= w
  BY <1>1
<1>2. CASE Len(s) > w
  <2>1. Len(s) = w + 1 /\ Tail(s) \in Seq(Classes) /\ Len(Tail(s)) = w
    BY <1>2
  <2>2. Ends(Tail(s), c, n)
    BY <2>1, EndsTail DEF Run
  <2>3. ~ Ends(Tail(s), c, n + 1)
    <3>1. CASE n < w
      BY <2>1, <3>1, EndsTail DEF Run
    <3>2. CASE n = w
      BY <2>1, <3>2 DEF Ends
    <3> QED BY <3>1, <3>2
  <2> QED BY <1>2, <2>1, <2>2, <2>3 DEF Run
<1> QED BY <1>1, <1>2

-----------------------------------------------------------------------------
\* What the memory of samples says of the counts: with no request just made
\* they are the runs at its end; a request comes of a whole run, and the counts
\* start anew.
Remembers ==
    /\ recent \in Seq(Classes) /\ Len(recent) <= Window
    /\ next = "maintain" =>
          Run(recent, "stress", stress_cycles) /\ Run(recent, "quiet", relaxation_cycles)
    /\ next = "hypertrophy" => /\ stress_cycles = 0 /\ relaxation_cycles = 0
                               /\ Ends(recent, "stress", StressRun)
    /\ next = "atrophy" => /\ stress_cycles = 0 /\ relaxation_cycles = 0
                           /\ Ends(recent, "quiet", QuietRun)

LEMMA OneClass ==
  ASSUME NEW s \in Seq(Classes), NEW n \in Nat \ {0}, NEW k \in Nat \ {0},
         Ends(s, "stress", n), Ends(s, "quiet", k)
  PROVE  FALSE
<1>1. Len(s) \in (Len(s) - n + 1)..Len(s) /\ Len(s) \in (Len(s) - k + 1)..Len(s)
  OBVIOUS
<1> QED BY <1>1 DEF Ends

LEMMA Sustained == TypeOK /\ Remembers => RequestsAreSustained
<1> SUFFICES ASSUME TypeOK, Remembers PROVE RequestsAreSustained
  OBVIOUS
<1>1. /\ LastAre("stress", Larger(sustained_stress_cycles, 1)) <=> Ends(recent, "stress", StressRun)
      /\ LastAre("quiet", Larger(sustained_relaxation_cycles, 1)) <=> Ends(recent, "quiet", QuietRun)
  BY DEF LastAre, Ends, StressRun, QuietRun
<1>2. CASE next = "maintain"
  <2>1. stress_cycles \in Nat /\ stress_cycles + 1 <= StressRun
        /\ relaxation_cycles \in Nat /\ relaxation_cycles + 1 <= QuietRun
    BY RunLengths DEF TypeOK, StressRun, QuietRun
  <2>2. ~ Ends(recent, "stress", StressRun)
    BY <1>2, <2>1, RunLengths, EndsShorter DEF Remembers, Run
  <2>3. ~ Ends(recent, "quiet", QuietRun)
    BY <1>2, <2>1, RunLengths, EndsShorter DEF Remembers, Run
  <2> QED BY <1>1, <1>2, <2>2, <2>3 DEF RequestsAreSustained
<1>3. CASE next = "hypertrophy"
  BY <1>1, <1>3, RunLengths, OneClass DEF Remembers, RequestsAreSustained
<1>4. CASE next = "atrophy"
  BY <1>1, <1>4, RunLengths, OneClass DEF Remembers, RequestsAreSustained
<1> QED BY <1>2, <1>3, <1>4 DEF TypeOK, Actions

LEMMA Classified ==
  ASSUME NEW v \in [cpu_usage : Int, memory_usage : Int, latency_ms : Int, error_rate : Int]
  PROVE  /\ Class(v) \in Classes
         /\ Stressed(v) <=> Class(v) = "stress"
         /\ Relaxed(v) <=> Class(v) = "quiet"
<1>1. calculate_system_stress(v) \in Int
  BY ConfigAssumption DEF calculate_system_stress, Smaller
<1>2. ~ (Stressed(v) /\ Relaxed(v))
  BY <1>1, ConfigAssumption DEF Stressed, Relaxed
<1> QED BY <1>2 DEF Class, Classes

LEMMA SampledType ==
  TypeOK => Sampled \in [cpu_usage : Int, memory_usage : Int, latency_ms : Int, error_rate : Int]
  BY ConfigAssumption DEF TypeOK, Sampled, Clamped, Larger, Smaller

\* One sample more: the run of its class grows, the run of any other is over.
LEMMA RunAppend ==
  ASSUME NEW s \in Seq(Classes), NEW c \in Classes, NEW d \in Classes, NEW n \in Nat,
         Run(s, c, n)
  PROVE  Run(Append(s, d), c, IF d = c THEN n + 1 ELSE 0)
<1>1. CASE d = c
  BY <1>1, EndsAppend DEF Run
<1>2. CASE d # c
  <2>1. Ends(Append(s, d), c, 0)
    BY DEF Ends
  <2>2. ~ Ends(Append(s, d), c, 0 + 1)
    BY <1>2, EndsAppend
  <2> QED BY <1>2, <2>1, <2>2 DEF Run
<1> QED BY <1>1, <1>2

\* The counts before a request is considered are the runs in the memory.
LEMMA CountedRuns ==
  ASSUME TypeOK, Remembers,
         NEW v \in [cpu_usage : Int, memory_usage : Int, latency_ms : Int, error_rate : Int]
  PROVE  /\ Remembered(v) \in Seq(Classes) /\ Len(Remembered(v)) <= Window
         /\ Run(Remembered(v), "stress", CountedStress(v))
         /\ Run(Remembered(v), "quiet", CountedRelaxation(v))
         /\ CountedStress(v) \in 0..StressRun /\ CountedRelaxation(v) \in 0..QuietRun
<1> DEFINE kept == IF next = "maintain" THEN recent ELSE <<>>
           all == Append(kept, Class(v))
<1>1. /\ kept \in Seq(Classes) /\ Len(kept) <= Window
      /\ Run(kept, "stress", stress_cycles) /\ Run(kept, "quiet", relaxation_cycles)
  <2>1. CASE next = "maintain"
    BY <2>1 DEF Remembers
  <2>2. CASE next # "maintain"
    <3>1. Run(<<>>, "stress", 0) /\ Run(<<>>, "quiet", 0)
      BY DEF Run, Ends
    <3>2. stress_cycles = 0 /\ relaxation_cycles = 0
      BY <2>2 DEF Remembers, TypeOK, Actions
    <3> QED BY <2>2, <3>1, <3>2, WindowHoldsRuns
  <2> QED BY <2>1, <2>2
<1>2. stress_cycles \in 0..(StressRun - 1) /\ relaxation_cycles \in 0..(QuietRun - 1)
  BY DEF TypeOK, StressRun, QuietRun
<1>3. /\ Class(v) \in Classes
      /\ Stressed(v) <=> Class(v) = "stress"
      /\ Relaxed(v) <=> Class(v) = "quiet"
  BY Classified
<1>4. CountedStress(v) \in 0..StressRun /\ CountedRelaxation(v) \in 0..QuietRun
  BY <1>2, RunLengths DEF CountedStress, CountedRelaxation
<1>5. all \in Seq(Classes) /\ Len(all) <= Window + 1
  BY <1>1, <1>3, WindowHoldsRuns
<1>6. Run(all, "stress", CountedStress(v))
  <2>1. stress_cycles \in Nat /\ "stress" \in Classes
    BY <1>2, RunLengths DEF Classes
  <2>2. Run(all, "stress", IF Class(v) = "stress" THEN stress_cycles + 1 ELSE 0)
    BY <1>1, <1>3, <2>1, RunAppend
  <2> QED BY <1>3, <2>2 DEF CountedStress
<1>7. Run(all, "quiet", CountedRelaxation(v))
  <2>1. relaxation_cycles \in Nat /\ "quiet" \in Classes
    BY <1>2, RunLengths DEF Classes
  <2>2. Run(all, "quiet", IF Class(v) = "quiet" THEN relaxation_cycles + 1 ELSE 0)
    BY <1>1, <1>3, <2>1, RunAppend
  <2> QED BY <1>3, <2>2 DEF CountedRelaxation
<1>8. Remembered(v) = IF Len(all) > Window THEN Tail(all) ELSE all
  BY DEF Remembered, Class, Window
<1>9. Window \in Nat \ {0} /\ CountedStress(v) <= Window /\ CountedRelaxation(v) <= Window
      /\ CountedStress(v) \in Nat /\ CountedRelaxation(v) \in Nat
  BY <1>4, WindowHoldsRuns, RunLengths
<1> HIDE DEF all
<1>10. /\ Remembered(v) \in Seq(Classes) /\ Len(Remembered(v)) <= Window
       /\ Run(Remembered(v), "stress", CountedStress(v))
  BY <1>5, <1>6, <1>8, <1>9, RunInWindow DEF Classes
<1>11. Run(Remembered(v), "quiet", CountedRelaxation(v))
  BY <1>5, <1>7, <1>8, <1>9, RunInWindow DEF Classes
<1> QED BY <1>4, <1>10, <1>11

LEMMA RemembersKept == TypeOK /\ Remembers /\ [Next]_vars => Remembers'
<1> SUFFICES ASSUME TypeOK, Remembers, [Next]_vars PROVE Remembers'
  OBVIOUS
<1>1. CASE Collect
  <2> DEFINE v == Sampled
  <2>1. v \in [cpu_usage : Int, memory_usage : Int, latency_ms : Int, error_rate : Int]
    BY SampledType
  <2> HIDE DEF v
  <2>2. recent' = Remembered(v) /\ Evaluate(v)
    BY <1>1 DEF Collect, v
  <2>3. /\ recent' \in Seq(Classes) /\ Len(recent') <= Window
        /\ Run(recent', "stress", CountedStress(v))
        /\ Run(recent', "quiet", CountedRelaxation(v))
        /\ CountedStress(v) \in 0..StressRun /\ CountedRelaxation(v) \in 0..QuietRun
    BY <2>1, <2>2, CountedRuns
  <2>4. ~ (Stressed(v) /\ Relaxed(v))
    BY <2>1, Classified
  <2>5. CASE Stressed(v) /\ CountedStress(v) >= StressRun
    <3>1. CountedStress(v) = StressRun /\ CountedRelaxation(v) = 0
      BY <2>3, <2>4, <2>5, RunLengths DEF CountedRelaxation
    <3>2. next' = "hypertrophy" /\ stress_cycles' = 0 /\ relaxation_cycles' = 0
      BY <2>2, <2>4, <2>5, <3>1 DEF Evaluate, StressRun
    <3> QED BY <2>3, <3>1, <3>2 DEF Remembers, Run
  <2>6. CASE Relaxed(v) /\ CountedRelaxation(v) >= QuietRun
    <3>1. CountedRelaxation(v) = QuietRun /\ CountedStress(v) = 0
      BY <2>3, <2>4, <2>6, RunLengths DEF CountedStress
    <3>2. next' = "atrophy" /\ stress_cycles' = 0 /\ relaxation_cycles' = 0
      BY <2>2, <2>4, <2>6, <3>1 DEF Evaluate, QuietRun
    <3> QED BY <2>3, <3>1, <3>2 DEF Remembers, Run
  <2>7. CASE /\ ~ (Stressed(v) /\ CountedStress(v) >= StressRun)
             /\ ~ (Relaxed(v) /\ CountedRelaxation(v) >= QuietRun)
    <3>1. /\ next' = "maintain" /\ stress_cycles' = CountedStress(v)
          /\ relaxation_cycles' = CountedRelaxation(v)
      BY <2>2, <2>7 DEF Evaluate, StressRun, QuietRun
    <3> QED BY <2>3, <3>1 DEF Remembers
  <2> QED BY <2>5, <2>6, <2>7
<1>2. ASSUME UNCHANGED <<brain, next, recent>> PROVE Remembers'
  BY <1>2 DEF Remembers, brain
<1> QED BY <1>1, <1>2 DEF Next, FailToCollect, Delivered, NotDelivered, Publish, Overdue, Load,
                         vars, brain

\* No request comes before a whole run of samples, none is withheld after one,
\* and no sample counts twice, whatever the thresholds and the lengths.
THEOREM RequestsSustained == Spec => []RequestsAreSustained
<1>1. Init => Remembers
  <2> SUFFICES ASSUME Init PROVE Remembers
    OBVIOUS
  <2>1. Run(<<>>, "stress", 0) /\ Run(<<>>, "quiet", 0)
    BY DEF Run, Ends
  <2> QED BY <2>1, WindowHoldsRuns DEF Init, Remembers
<1> QED BY <1>1, RemembersKept, Sustained, MonitorTypes, PTL DEF Spec
=============================================================================
