--------------------------- MODULE GraphCollector ---------------------------
(***************************************************************************)
(* The graph collector (collectors/graph_collector.go) and the compiler of *)
(* its statistics (collectors/stats_compiler.go): Collect asks lnd for the *)
(* graph, runs over the policies of all edges, as far as they are known,   *)
(* exports what it has made of them, and asks for the network's figures.   *)
(*                                                                         *)
(* The code runs five compilers side by side, one for each field of a      *)
(* policy; here there is one, and value is the field. Values are whole     *)
(* numbers; the average is kept as a fraction, whose denominator is 0      *)
(* where the code has NaN, and the median is doubled. Of a histogram the   *)
(* count and the sum are kept.                                             *)
(***************************************************************************)
EXTENDS Integers, Sequences, FiniteSets, Functions

CONSTANTS
  Policies, \* [value, known, base, rate]: known says that the policy has the
            \* custom record of the inbound fee, and base and rate are the fee
  Nil,      \* a policy that the graph does not know
  MaxFloat, \* math.MaxFloat64
  MaxEdges  \* bound: the edges of the graph

(* What is assumed of the constants: MCReports evaluates it.               *)
PoliciesAssumption ==
  /\ Policies \subseteq [value : Nat, known : BOOLEAN, base : Int, rate : Int]
  /\ MaxFloat \in Nat /\ \A p \in Policies : p.value < MaxFloat
  /\ Nil \notin Policies
  /\ MaxEdges \in Nat

VARIABLES
  at,      \* the call Collect waits for, "loop", or "idle"
  edges,   \* DescribeGraph's answer: for each edge its two policies
  next,    \* the place of the policy the loop is at
  stats,   \* the compiler
  fees,    \* the two histograms of the inbound fee, by sign
  report,  \* <<>>, or the report that is exported
  emitted, \* the descriptors of the metrics that are exported
  cause,   \* why the call failed that ended Collect, or "none"
  raised   \* whether it has sent an error

vars == <<at, edges, next, stats, fees, report, emitted, cause, raised>>
local == <<edges, next, stats, fees, report>>

(* Collect as module Scrape has it: the call that is answered and what is  *)
(* made of the answer are one step there, the one in which all is exported.*)
Collect == INSTANCE Scrape WITH
  Collectors <- {"graph"}, MaxBeside <- 1,
  lnd <- "up", wtOn <- TRUE, beside <- {"graph"},
  step <- [c \in {"graph"} |-> CASE at = "idle" -> 0
                                 [] at \in {"DescribeGraph", "loop"} -> 1
                                 [] at = "NetworkInfo" -> 2],
  emitted <- [c \in {"graph"} |-> IF at = "loop" THEN {} ELSE emitted],
  cause <- [c \in {"graph"} |-> cause],
  raised <- [c \in {"graph"} |-> raised],
  ran <- [c \in {"graph"} |-> at # "idle" \/ emitted # {} \/ cause # "none"]

Failures == Collect!Causes \ {"inactive"}

-----------------------------------------------------------------------------
(* The statistics                                                          *)
NewStatsCompiler == [min |-> MaxFloat, max |-> 0, sum |-> 0, samples |-> <<>>]

Observe(s, value) ==
  [min |-> IF value < s.min THEN value ELSE s.min,
   max |-> IF value > s.max THEN value ELSE s.max,
   sum |-> s.sum + value, samples |-> Append(s.samples, value)]

(* sort.Float64s: at place k there is the value that fewer than k samples  *)
(* are below and at least k are not above.                                 *)
Sorted(s) ==
  [k \in DOMAIN s |->
     CHOOSE v \in Range(s) :
       /\ Cardinality({i \in DOMAIN s : s[i] < v}) < k
       /\ Cardinality({i \in DOMAIN s : s[i] <= v}) >= k]

(* mutant: the samples are not sorted                                      *)
MedianUnsorted(s) ==
  LET pivot == Len(s) \div 2 IN
  CASE Len(s) = 0                      -> 0
    [] Len(s) > 0 /\ Len(s) % 2 = 0    -> s[pivot] + s[pivot + 1]
    [] Len(s) % 2 = 1                  -> 2 * s[pivot + 1]

(* Twice the median; the pivot counts from 0 in the code.                  *)
Median(s) ==
  LET sorted == Sorted(s)
      pivot  == Len(s) \div 2 IN
  CASE Len(s) = 0                      -> 0
    [] Len(s) > 0 /\ Len(s) % 2 = 0    -> sorted[pivot] + sorted[pivot + 1]
    [] Len(s) % 2 = 1                  -> 2 * sorted[pivot + 1]

Report(s) ==
  [min |-> s.min, max |-> s.max, num |-> s.sum, den |-> Len(s.samples),
   median |-> Median(s.samples)]

(* The histograms of the inbound fee: its base and its rate, with a series *)
(* for either sign that has been observed.                                 *)
Signs == {"positive", "negative"}
NoFees ==
  [kind \in {"base", "rate"} |->
     [sign \in Signs |-> [count |-> 0, sum |-> 0]]]

(* mutant: a fee of 0 is observed as a positive one                        *)
HasSignOrZero(fee, sign) ==
  IF sign = "negative" THEN fee < 0 ELSE fee >= 0

HasSign(fee, sign) == IF sign = "negative" THEN fee < 0 ELSE fee > 0

ObserveFee(histogram, fee) ==
  [sign \in Signs |->
     IF HasSign(fee, sign)
     THEN [count |-> histogram[sign].count + 1,
           sum   |-> histogram[sign].sum + (IF fee < 0 THEN -fee ELSE fee)]
     ELSE histogram[sign]]

-----------------------------------------------------------------------------
Init ==
  /\ at = "idle"
  /\ edges = <<>> /\ next = 1
  /\ stats = NewStatsCompiler /\ fees = NoFees /\ report = <<>>
  /\ emitted = {} /\ cause = "none" /\ raised = FALSE

(* The places of the policies, in the order of the two loops               *)
Places == 1..2 * Len(edges)
Policy(p) == edges[(p + 1) \div 2][IF p % 2 = 1 THEN 1 ELSE 2]

Begin ==
  /\ at = "idle"
  /\ at' = "DescribeGraph"
  /\ edges' = <<>> /\ next' = 1
  /\ stats' = NewStatsCompiler /\ fees' = NoFees /\ report' = <<>>
  /\ emitted' = {} /\ cause' = "none" /\ raised' = FALSE

(* lnd answers with any graph, and the numbers of edges and nodes go out.  *)
DescribeGraph ==
  /\ at = "DescribeGraph"
  /\ at' = "loop"
  /\ LET Ends == Policies \cup {Nil} IN
       edges' \in UNION {[1..m -> Ends \X Ends] : m \in 0..MaxEdges}
  /\ emitted' = {"numEdgesDesc", "numNodesDesc"}
  /\ UNCHANGED <<next, stats, fees, report, cause, raised>>

SkipNil ==
  /\ at = "loop" /\ next \in Places /\ Policy(next) = Nil
  /\ next' = next + 1
  /\ UNCHANGED <<at, edges, stats, fees, report, emitted, cause, raised>>

ObservePolicy ==
  /\ at = "loop" /\ next \in Places /\ Policy(next) # Nil
  /\ LET policy == Policy(next) IN
       /\ stats' = Observe(stats, policy.value)
       /\ fees' = IF policy.known
                  THEN [kind \in {"base", "rate"} |->
                          ObserveFee(fees[kind], policy[kind])]
                  ELSE fees
  /\ next' = next + 1
  /\ UNCHANGED <<at, edges, report, emitted, cause, raised>>

ExportPolicies ==
  /\ at = "loop" /\ next \notin Places
  /\ at' = "NetworkInfo"
  /\ report' = <<Report(stats)>>
  /\ emitted' = emitted \cup Collect!Policies
  /\ UNCHANGED <<edges, next, stats, fees, cause, raised>>

NetworkInfo ==
  /\ at = "NetworkInfo"
  /\ at' = "idle"
  /\ emitted' = emitted \cup Collect!GraphCalls[2].emits
  /\ UNCHANGED <<local, cause, raised>>

(* Either call fails: the error is sent, and Collect returns.              *)
Fails(err) ==
  /\ at \in {"DescribeGraph", "NetworkInfo"}
  /\ at' = "idle" /\ cause' = err /\ raised' = TRUE
  /\ UNCHANGED <<local, emitted>>

Next ==
  \/ Begin \/ DescribeGraph \/ SkipNil \/ ObservePolicy \/ ExportPolicies
  \/ NetworkInfo \/ \E err \in Failures : Fails(err)

Spec == Init /\ [][Next]_vars

-----------------------------------------------------------------------------
(* Properties                                                              *)

Known(to) == {p \in 1..to : Policy(p) # Nil}

(* The types; a value lies between the extremes once it is observed.       *)
TypeOK ==
  /\ at \in {"idle", "DescribeGraph", "loop", "NetworkInfo"}
  /\ next \in 1..2 * Len(edges) + 1
  /\ stats.samples \in Seq({p.value : p \in Policies}) /\ stats.sum \in Nat
  /\ stats.samples # <<>> => stats.min <= stats.max
  /\ \A kind \in {"base", "rate"}, sign \in Signs :
       fees[kind][sign] \in [count : Nat, sum : Nat]
  /\ emitted \subseteq Collect!All(Collect!GraphCalls)
  /\ cause \in Failures \cup {"none"} /\ raised \in BOOLEAN

(* The report of the known policies is what it should be, in whatever      *)
(* order they are observed and whichever are equal: the extremes are there *)
(* and nothing is beyond them, at least half of the policies are at or     *)
(* below the median and half at or above it, it is in the middle of the    *)
(* two that are next to it, and every known policy counts once.            *)
ReportIsRight ==
  report # <<>> /\ Known(2 * Len(edges)) # {} =>
    LET r == report[1]
        K == Known(2 * Len(edges))
        Value(p) == Policy(p).value
        below == {p \in K : 2 * Value(p) <= r.median}
        above == {p \in K : 2 * Value(p) >= r.median} IN
    /\ \E p \in K : Value(p) = r.min
    /\ \E p \in K : Value(p) = r.max
    /\ \A p \in K : Value(p) \in r.min..r.max
    /\ 2 * Cardinality(below) >= Cardinality(K)
    /\ 2 * Cardinality(above) >= Cardinality(K)
    /\ \E p \in below, q \in above :
         /\ Value(p) + Value(q) = r.median
         /\ \A o \in K : Value(o) <= Value(p) \/ Value(o) >= Value(q)
    /\ r.den = Cardinality(K)
    /\ r.num = SumFunction([p \in K |-> Value(p)])

(* At any point of the loop the histograms hold the inbound fees of the    *)
(* policies seen that have one, a fee of 0 in neither series and every     *)
(* other in the series of its sign: the numbers of fees and what they      *)
(* come to agree with the policies.                                        *)
InboundFeesAreRight ==
  \A kind \in {"base", "rate"} :
    LET Fee(p) == Policy(p)[kind]
        charged == {p \in Known(next - 1) : Policy(p).known /\ Fee(p) # 0}
        h == fees[kind] IN
    /\ h["negative"].count = Cardinality({p \in charged : Fee(p) < 0})
    /\ h["positive"].count = Cardinality(charged) - h["negative"].count
    /\ h["positive"].sum - h["negative"].sum
         = SumFunction([p \in charged |-> Fee(p)])

(* The collector does what Scrape says of it: it exports all that an       *)
(* answer gives or stops at the call that fails, with an error.            *)
ImplementsScrape == Collect!Spec
=============================================================================
