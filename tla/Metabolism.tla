----------------------------- MODULE Metabolism -----------------------------
(***************************************************************************)
(* The monitoring loop of a node: it samples the machine, lets the         *)
(* hypothalamus judge the sample, tells the webhook when the decision      *)
(* changes, and publishes the decision for GET /metabolism.  Scores are in *)
(* tenths of a point.  Of a decision only the action is kept.              *)
(***************************************************************************)
EXTENDS Integers, Sequences

CONSTANTS
    Readings,              \* what the machine may be like: SystemVitals
    stress_threshold, relaxation_threshold, latency_threshold_ms, error_rate_weight,
    sustained_stress_cycles, sustained_relaxation_cycles,
    FromProcfs,            \* the node's own source, or an adapter
    HasWebhook             \* METABOLIC_WEBHOOK is set

ASSUME ConfigAssumption ==
    /\ Readings \subseteq [cpu_usage : Int, memory_usage : Int, latency_ms : Int, error_rate : Int]
    /\ {stress_threshold, relaxation_threshold, latency_threshold_ms, error_rate_weight} \subseteq Nat
    /\ relaxation_threshold < stress_threshold
    /\ {sustained_stress_cycles, sustained_relaxation_cycles} \subseteq Nat
    /\ {FromProcfs, HasWebhook} \subseteq BOOLEAN

VARIABLES
    machine,                          \* the load of the machine now
    previous_cpu,                     \* the source has an earlier CPU count
    stress_cycles, relaxation_cycles, \* the hypothalamus
    next,                             \* its last decision
    last,                             \* the ChangeGate
    notifying,                        \* a call of the webhook is under way
    status,                           \* what GET /metabolism answers
    heard,                            \* the receiver's last news
    late,                             \* calls given up that may still arrive
    missed,                           \* history: a call of the webhook failed
    recent                            \* history: samples since a request

brain == <<stress_cycles, relaxation_cycles>>
calls == <<last, notifying, status, heard, late, missed>>
vars  == <<machine, previous_cpu, brain, next, calls, recent>>

Actions == {"maintain", "hypertrophy", "atrophy"}

Larger(a, b)  == IF a > b THEN a ELSE b
Smaller(a, b) == IF a < b THEN a ELSE b

-----------------------------------------------------------------------------
(***************************************************************************)
(* The hypothalamus.                                                       *)
(***************************************************************************)

\* SystemVitals::new
Clamped(v) ==
    [cpu_usage    |-> Larger(0, Smaller(v.cpu_usage, 100)),
     memory_usage |-> Larger(0, Smaller(v.memory_usage, 100)),
     latency_ms   |-> Larger(0, v.latency_ms),
     error_rate   |-> Larger(0, v.error_rate)]

calculate_system_stress(v) ==
    Smaller(1000, 4 * v.cpu_usage + 4 * v.memory_usage
                  + (IF v.latency_ms > latency_threshold_ms THEN 200 ELSE 0)
                  + 10 * error_rate_weight * v.error_rate)

Stressed(v) == calculate_system_stress(v) >= 10 * stress_threshold
Relaxed(v)  == calculate_system_stress(v) <= 10 * relaxation_threshold

\* Bug: quiet samples count although others came between them.
CountedRelaxationOnAndOff(v) == IF Relaxed(v) THEN relaxation_cycles + 1 ELSE relaxation_cycles

\* The runs of stressed and of quiet samples with v. One of them is 0.
CountedStress(v)     == IF Stressed(v) THEN stress_cycles + 1 ELSE 0
CountedRelaxation(v) == IF Relaxed(v)  THEN relaxation_cycles + 1 ELSE 0

\* Bug: the sample that asks for capacity counts towards the next request.
EvaluateOverlapping(v) ==
    LET hyper == Stressed(v) /\ CountedStress(v) >= Larger(sustained_stress_cycles, 1)
        hypo  == Relaxed(v) /\ CountedRelaxation(v) >= Larger(sustained_relaxation_cycles, 1)
    IN  /\ next' = IF hyper THEN "hypertrophy" ELSE IF hypo THEN "atrophy" ELSE "maintain"
        /\ stress_cycles' = CountedStress(v)
        /\ relaxation_cycles' = CountedRelaxation(v)

\* evaluate: a run that is long enough asks for capacity, or offers some, and
\* starts anew.
Evaluate(v) ==
    LET hyper == Stressed(v) /\ CountedStress(v) >= Larger(sustained_stress_cycles, 1)
        hypo  == Relaxed(v) /\ CountedRelaxation(v) >= Larger(sustained_relaxation_cycles, 1)
    IN  /\ next' = IF hyper THEN "hypertrophy" ELSE IF hypo THEN "atrophy" ELSE "maintain"
        /\ stress_cycles' = IF hyper THEN 0 ELSE CountedStress(v)
        /\ relaxation_cycles' = IF hypo THEN 0 ELSE CountedRelaxation(v)

-----------------------------------------------------------------------------
(***************************************************************************)
(* The loop.                                                               *)
(***************************************************************************)

Init ==
    /\ machine \in Readings
    /\ previous_cpu = FALSE
    /\ stress_cycles = 0 /\ relaxation_cycles = 0
    /\ next = "maintain" /\ last = "none"
    /\ notifying = FALSE
    /\ status = "maintain"
    /\ heard = "none" /\ late = {}
    /\ missed = FALSE
    /\ recent = <<>>

\* The source of the node measures CPU between two samples, 0 at first, and
\* neither latency nor errors. An adapter may supply all four.
Sampled ==
    IF FromProcfs
    THEN Clamped([machine EXCEPT !.cpu_usage = IF previous_cpu THEN @ ELSE 0,
                                 !.latency_ms = 0, !.error_rate = 0])
    ELSE Clamped(machine)

\* Bug: only a request for capacity, or an offer, is news.
NewsOfRequests(action) == last # action /\ action # "maintain"

\* ChangeGate::should_notify; the first decision is always news.
should_notify(action) == last # action

\* The last samples since a request, as many as a decision can depend on.
Remembered(v) ==
    LET class == IF Stressed(v) THEN "stress" ELSE IF Relaxed(v) THEN "quiet" ELSE "normal"
        all   == Append(IF next = "maintain" THEN recent ELSE <<>>, class)
        size  == Larger(1, Larger(sustained_stress_cycles, sustained_relaxation_cycles))
    IN  IF Len(all) > size THEN Tail(all) ELSE all

\* The decision is published at once, or when the webhook has been called. The
\* gate has moved by then, whatever comes of the call.
Collect ==
    /\ ~ notifying
    /\ Evaluate(Sampled)
    /\ last' = IF HasWebhook THEN next' ELSE last
    /\ IF HasWebhook /\ should_notify(next')
       THEN notifying' = TRUE /\ UNCHANGED status
       ELSE status' = next' /\ UNCHANGED notifying
    /\ previous_cpu' = TRUE
    /\ recent' = Remembered(Sampled)
    /\ UNCHANGED <<machine, heard, late, missed>>

\* /proc/stat could not be read, or /proc/meminfo after it. The cycle is
\* skipped: no count is reset and the last decision stays published.
FailToCollect ==
    /\ ~ notifying
    /\ \/ UNCHANGED previous_cpu
       \/ previous_cpu' = TRUE
    /\ UNCHANGED <<machine, brain, next, calls, recent>>

\* Bug: a call that failed has no decision to publish.
PublishOnlyHeard ==
    /\ notifying
    /\ notifying' = FALSE
    /\ status' = IF missed' THEN status ELSE next
    /\ UNCHANGED <<machine, previous_cpu, brain, next, last, recent>>

\* notify has returned, without an error in any case.
Publish ==
    /\ notifying
    /\ notifying' = FALSE
    /\ status' = next
    /\ UNCHANGED <<machine, previous_cpu, brain, next, last, recent>>

Delivered == UNCHANGED <<late, missed>> /\ heard' = next /\ Publish

\* The receiver refused, was not there, or took more than WEBHOOK_TIMEOUT: then
\* it may have the news all the same, or get it yet.
NotDelivered ==
    /\ missed' = TRUE
    /\ Publish
    /\ \/ UNCHANGED <<heard, late>>
       \/ late' = late \cup {next} /\ UNCHANGED heard

Overdue(action) ==
    /\ heard' = action
    /\ late' = late \ {action}
    /\ UNCHANGED <<machine, previous_cpu, brain, next, last, notifying, status, missed, recent>>

Load(v) ==
    /\ machine' = v
    /\ UNCHANGED <<previous_cpu, brain, next, calls, recent>>

Next ==
    \/ Collect
    \/ FailToCollect
    \/ Delivered
    \/ NotDelivered
    \/ \E action \in late : Overdue(action)
    \/ \E v \in Readings : Load(v)

Spec == Init /\ [][Next]_vars

\* The loop sleeps a while and goes on, and reads the machine again some time
\* after it could not; a call of the webhook ends, one way or another, at the
\* timeout.
FairSpec == Spec /\ WF_vars(Collect) /\ WF_vars(Delivered \/ NotDelivered)

-----------------------------------------------------------------------------
(***************************************************************************)
(* Properties.                                                             *)
(***************************************************************************)

TypeOK ==
    /\ machine \in Readings
    /\ {previous_cpu, notifying, missed} \subseteq BOOLEAN
    /\ stress_cycles \in 0..(Larger(sustained_stress_cycles, 1) - 1)
    /\ relaxation_cycles \in 0..(Larger(sustained_relaxation_cycles, 1) - 1)
    /\ {next, status} \cup late \subseteq Actions
    /\ {last, heard} \subseteq Actions \cup {"none"}

\* The last n samples since a request were all of this class.
LastAre(class, n) ==
    /\ Len(recent) >= n
    /\ \A i \in (Len(recent) - n + 1)..Len(recent) : recent[i] = class

\* An isolated peak moves nothing and an instant of quiet removes nothing:
\* capacity is asked for exactly when the last cycles were all stressed,
\* offered exactly when they were all quiet, and no sample counts twice. The
\* cycles are those with a sample: one whose reading failed breaks no run.
RequestsAreSustained ==
    /\ next = "hypertrophy" <=> LastAre("stress", Larger(sustained_stress_cycles, 1))
    /\ next = "atrophy" <=> LastAre("quiet", Larger(sustained_relaxation_cycles, 1))

\* A receiver that missed nothing knows the decision GET /metabolism shows,
\* though it is told of changes only, the return to normal among them.
ReceiverInformed ==
    ~ notifying /\ ~ missed /\ last # "none" => heard = status

\* A machine that stays under stress gets its request published again and
\* again, whether the webhook answers, refuses or is not there.
StressIsHeard ==
    <>[]Stressed(Clamped(machine)) => []<>(status = "hypertrophy")
=============================================================================
