------------------------------- MODULE Totals -------------------------------
(***************************************************************************)
(* Programs whose threads add up a result: nine that count or compare into *)
(* shared variables, and four that divide their work among threads they    *)
(* create and join.  Both families have their own variables, Init, Next    *)
(* and properties; a run moves one of them.                                *)
(***************************************************************************)
EXTENDS Integers, SequencesExt

(***************************************************************************)
(* The programs whose threads do nothing but update shared numbers:        *)
(*                                                                         *)
(*   010_mutex_array_sum.c       sum, min and max of an array, three locks *)
(*   pthread-findminimumvalue.c  the least element of a list, one lock     *)
(*   pythagoras.c                the sum of two squares, one lock          *)
(*   withmutex.c                 a counter, one lock, again and again      *)
(*   5.c                         a scalar product, the lock is missing     *)
(*   tp5_2.c                     a product with a matrix, missing          *)
(*   shared_data_mutex.c, pth_mutex2.c, W9mutex1.c    a counter, missing   *)
(*                                                                         *)
(* An update is a load and a store.  What a thread works out by itself     *)
(* before it (sums and extremes of its part) is its list of updates.       *)
(***************************************************************************)
CONSTANTS ThreadsOf,        \* of each program: how many (a bound where the program has more)
          RoundsOf,       \* of a thread that counts in a loop: how often (a bound)
          PartSize,       \* of 010_mutex_array_sum.c: elements of each thread (a bound; 100)
          Rows,           \* rows of the matrix of tp5_2.c (a bound; 10)
          CountersMaxElement  \* elements of the list are 1 .. CountersMaxElement (a bound; 1000)

Guarded   == {"010_mutex_array_sum.c", "pthread-findminimumvalue.c", "pythagoras.c", "withmutex.c"}
Counting  == {"withmutex.c", "shared_data_mutex.c", "pth_mutex2.c", "W9mutex1.c"}
Looping   == Counting \ {"W9mutex1.c"}
Unguarded == {"5.c", "tp5_2.c", "shared_data_mutex.c", "pth_mutex2.c", "W9mutex1.c"}
Sources   == Guarded \cup Unguarded

CountersAssumption ==
  /\ ThreadsOf \in [Sources -> Nat \ {0}] /\ RoundsOf \in [Looping -> Nat \ {0}]
  /\ PartSize \in Nat \ {0, 1} /\ Rows \in 1 .. 10 /\ CountersMaxElement \in Nat \ {0}

VARIABLES source,         \* the program that is run
          list,           \* the list of pthread-findminimumvalue.c
          cell,           \* the shared numbers
          lock,           \* who holds the mutex of each: nobody, or one
          at, n, reg,     \* of each thread: where it is, updates done, value loaded
          round           \* of withmutex.c

counterVars == <<source, list, cell, lock, at, n, reg, round>>

Thread == 0 .. ThreadsOf[source] - 1
-----------------------------------------------------------------------------
(* The updates of thread t.                                                *)

SumOf(f, S) == FoldFunctionOnSet(+, 0, f, S)
Update(c, op, by) == [cell |-> c, op |-> op, by |-> by]

\* Each thread has PartSize elements, and main() makes one great and one negative.
arr == [i \in 0 .. ThreadsOf["010_mutex_array_sum.c"] * PartSize - 1 |->
          IF i = PartSize THEN 1000 ELSE IF i = PartSize + 1 THEN -1 ELSE i]

func(t) ==
  LET part == PartSize * t .. PartSize * (t + 1) - 1
  IN  << Update("sum", "add", SumOf(arr, part)),
         Update("min", "min", Min({arr[i] : i \in part} \cup {0})),
         Update("max", "max", Max({arr[i] : i \in part} \cup {0})) >>

partial_list_size == Cardinality(DOMAIN list) \div ThreadsOf[source]

Part(t) == t * partial_list_size .. (t + 1) * partial_list_size - 1

find_min(t) == << Update("minimum_value", "min", Min({list[i] : i \in Part(t)})) >>

\* The sides are 3 and 4.
square_side(t) == << Update("hypotenuse", "add", (t + 3) * (t + 3)) >>

\* Sums that are different for different sets of threads.
dotprod(t) == << Update("data.sum", "add", 2 ^ t) >>

matrice == << <<8, 25, 3, 41>>, <<11, 18, 3, 4>>, <<4, 15, 78, 12>>, <<1, 12, 0, 12>>,
              <<7, 9, 13, 15>>, <<4, 21, 37, 89>>, <<1, 54, 7, 3>>, <<15, 78, 7, 1>>,
              <<12, 15, 13, 47>>, <<91, 13, 72, 90>> >>

computeVector(t) == [i \in 1 .. Rows |-> Update(i, "add", matrice[i][t + 1] * (t + 1))]

\* How often a thread adds one to the counter: three programs do it in a loop, one once.
IncrementsEach == IF source \in Looping THEN RoundsOf[source] ELSE 1

Increments == [i \in 1 .. IncrementsEach |-> Update("counter", "add", 1)]

Updates(t) ==
  CASE source = "010_mutex_array_sum.c"      -> func(t)
    [] source = "pthread-findminimumvalue.c" -> find_min(t)
    [] source = "pythagoras.c"               -> square_side(t)
    [] source = "5.c"                        -> dotprod(t)
    [] source = "tp5_2.c"                    -> computeVector(t)
    [] OTHER                                 -> Increments

Cells ==
  CASE source = "010_mutex_array_sum.c"      -> {"sum", "min", "max"}
    [] source = "pthread-findminimumvalue.c" -> {"minimum_value"}
    [] source = "pythagoras.c"               -> {"hypotenuse"}
    [] source = "5.c"                        -> {"data.sum"}
    [] source = "tp5_2.c"                    -> 1 .. Rows
    [] OTHER                                 -> {"counter"}

First == IF source = "pthread-findminimumvalue.c" THEN list[0] ELSE 0

Rounds == IF source = "withmutex.c" THEN 2 ELSE 1        \* a bound; 1000
-----------------------------------------------------------------------------
CountersInit ==
  /\ source \in Sources
  /\ list \in IF source = "pthread-findminimumvalue.c"
                 THEN [0 .. 3 -> 1 .. CountersMaxElement] ELSE {<<>>}
  /\ cell = [c \in Cells |-> First] /\ lock = [c \in Cells |-> {}]
  /\ at = [t \in Thread |-> "next"] /\ n = [t \in Thread |-> 0] /\ reg = [t \in Thread |-> 0]
  /\ round = 1

Mine(t) == Updates(t)[n[t] + 1]

Load(t) ==
  /\ at[t] = "next" /\ n[t] < Len(Updates(t))
  /\ LET c == Mine(t).cell IN
       /\ IF source \in Guarded THEN lock[c] = {} /\ lock' = [lock EXCEPT ![c] = {t}]
                                ELSE UNCHANGED lock
       /\ reg' = [reg EXCEPT ![t] = cell[c]]
  /\ at' = [at EXCEPT ![t] = "store"]
  /\ UNCHANGED <<source, list, cell, n, round>>

Merged(op, old, by) ==
  CASE op = "add" -> old + by [] op = "min" -> Min({old, by}) [] OTHER -> Max({old, by})

Store(t) ==
  /\ at[t] = "store"
  /\ LET u == Mine(t) IN
       /\ cell' = [cell EXCEPT ![u.cell] = Merged(u.op, reg[t], u.by)]
       /\ lock' = [lock EXCEPT ![u.cell] = {}]
  /\ n' = [n EXCEPT ![t] = @ + 1] /\ at' = [at EXCEPT ![t] = "next"]
  /\ UNCHANGED <<source, list, reg, round>>

run(t) == Load(t) \/ Store(t)

CountersAllDone == \A t \in Thread : n[t] = Len(Updates(t))

\* BUG: the loop of main() does not move on.
BugAgain ==
  /\ CountersAllDone /\ round < Rounds /\ round' = round
  /\ cell' = [c \in Cells |-> 0] /\ n' = [t \in Thread |-> 0]
  /\ UNCHANGED <<source, list, lock, at, reg>>

\* main() joins all threads; withmutex.c resets the counter and starts them again.
Again ==
  /\ CountersAllDone /\ round < Rounds /\ round' = round + 1
  /\ cell' = [c \in Cells |-> 0] /\ n' = [t \in Thread |-> 0]
  /\ UNCHANGED <<source, list, lock, at, reg>>

CountersTerminated == CountersAllDone /\ round = Rounds /\ UNCHANGED counterVars

CountersNext == Again \/ CountersTerminated \/ \E t \in Thread : run(t)

CountersSpec == CountersInit /\ [][CountersNext]_counterVars

CountersFairSpec ==
  /\ CountersSpec /\ WF_counterVars(Again)
  /\ \A t \in 0 .. Max({ThreadsOf[s] : s \in Sources}) - 1 : WF_counterVars(t \in Thread /\ run(t))
-----------------------------------------------------------------------------
CountersTypeOK ==
  /\ source \in Sources /\ cell \in [Cells -> Int] /\ lock \in [Cells -> SUBSET Thread]
  /\ at \in [Thread -> {"next", "store"}] /\ round \in 1 .. Rounds
  /\ \A t \in Thread : n[t] \in 0 .. Len(Updates(t))

\* The updates of c that have been made.
Made(c) == {<<t, i>> \in Thread \X (1 .. 10) : i <= n[t] /\ Updates(t)[i].cell = c}

AmountOf(c) == [u \in Made(c) |-> Updates(u[1])[u[2]].by]

\* Under a lock nothing is lost: a number nobody is at is made up of exactly the updates made.
NothingIsLost ==
  source \in Guarded => \A c \in Cells : lock[c] = {} =>
    LET by == AmountOf(c)
        op == Updates(0)[CHOOSE i \in 1 .. Len(Updates(0)) : Updates(0)[i].cell = c].op
    IN  cell[c] = CASE op = "add" -> SumOf(by, Made(c))
                    [] op = "min" -> Min({First} \cup Range(by))
                    [] op = "max" -> Max({First} \cup Range(by))

\* What main() prints is what one thread alone would have found in all the data.
ResultIsRight ==
  CountersAllDone =>
    /\ source = "010_mutex_array_sum.c" =>
         cell = [c \in Cells |-> IF c = "sum" THEN SumOf(arr, DOMAIN arr)
                                 ELSE IF c = "min" THEN Min(Range(arr)) ELSE Max(Range(arr))]
    /\ source = "pthread-findminimumvalue.c" => cell["minimum_value"] = Min(Range(list))
    /\ source = "pythagoras.c" => cell["hypotenuse"] = 25
    /\ source = "withmutex.c" => cell["counter"] = ThreadsOf[source] * IncrementsEach

\* Without a lock a loop can lose nearly everything, but a counter that each thread raises
\* twice or more comes to two at least, and a sum to that of some thread at least.
SomethingRemains ==
  CountersAllDone /\ source \in Unguarded =>
    /\ source \in Counting =>
         cell["counter"] \in Min({IncrementsEach, 2}) .. ThreadsOf[source] * IncrementsEach
    /\ source \notin Counting => \A c \in Cells :
         \E S \in (SUBSET Thread) \ {{}} :
           cell[c] = SumOf([t \in Thread |-> Updates(t)[IF source = "5.c" THEN 1 ELSE c].by], S)

\* The safety of the counting programs.
CountersInv == CountersTypeOK /\ NothingIsLost /\ ResultIsRight /\ SomethingRemains

\* main() gets to its last line.
CountersEnd == <>(CountersAllDone /\ round = Rounds)
-----------------------------------------------------------------------------

(***************************************************************************)
(* Programs whose threads create two threads each, join them, and go on    *)
(* with what they did:                                                     *)
(*                                                                         *)
(*   MergeSort.c_              sorts an array                              *)
(*   BinarySearch.c, con.c     (the same text) look for target in an array *)
(*   FibonacciSequence.c       works out a Fibonacci number                *)
(*                                                                         *)
(* None of them uses the mutex it has.  A thread is named by its way from  *)
(* the first: 1 for each left (or first) thread, 2 for each right one.     *)
(***************************************************************************)
CONSTANTS size,              \* elements of the array, or the number wanted (a bound; 10, 100)
          ForkMaxElement      \* elements are 0 .. ForkMaxElement (a bound; 99)

ForkJoinAssumption == size \in Nat \ {0} /\ ForkMaxElement \in Nat

VARIABLES work,           \* the program that is run
          given, fjArr, target, found, printed,   \* the array at first and now; the search
          fib_cache,
          arg,            \* of each thread created: its range, or <<number>>
          place,          \* ... where it is
          left, right,    \* ... what is left of its copies in merge()
          result          \* ... what it returns

joinVars ==
  <<work, given, fjArr, target, found, printed, fib_cache, arg, place, left, right, result>>

Created == DOMAIN arg

low(t)  == arg[t][1]
high(t) == arg[t][2]
mid(t)  == low(t) + (high(t) - low(t)) \div 2

ForkInit ==
  /\ work \in {"sort", "search", "fibonacci"}
  /\ given \in CASE work = "sort"   -> [0 .. size - 1 -> 0 .. ForkMaxElement]
                 [] work = "search" -> {[i \in 0 .. size - 1 |-> i]}
                 [] OTHER           -> {<<>>}
  /\ fjArr = given /\ target \in IF work = "search" THEN 0 .. size ELSE {0}
  /\ found = FALSE /\ printed = {} /\ fib_cache = [i \in 0 .. size |-> 0]
  /\ arg = (<<>> :> IF work = "fibonacci" THEN <<size>> ELSE <<0, size - 1>>)
  /\ place = (<<>> :> "start") /\ left = (<<>> :> <<>>) /\ right = left /\ result = (<<>> :> 0)

Child1(t)  == Append(t, 1)
Child2(t) == Append(t, 2)

\* t creates two threads with these arguments, and is going to join them.
Fork(t, arg1, arg2) ==
  /\ arg'    = (Child1(t) :> arg1 @@ Child2(t) :> arg2 @@ arg)
  /\ place'  = (Child1(t) :> "start" @@ Child2(t) :> "start" @@ [place EXCEPT ![t] = "join"])
  /\ left'   = (Child1(t) :> <<>> @@ Child2(t) :> <<>> @@ left)
  /\ right'  = (Child1(t) :> <<>> @@ Child2(t) :> <<>> @@ right)
  /\ result' = (Child1(t) :> 0 @@ Child2(t) :> 0 @@ result)

Return(t, value) ==
  /\ place' = [place EXCEPT ![t] = "done"] /\ result' = [result EXCEPT ![t] = value]
  /\ UNCHANGED <<arg, left, right>>

Goes(t, to) == place' = [place EXCEPT ![t] = to] /\ UNCHANGED <<arg, left, right, result>>

\* BUG: the second thread is not joined.
BugJoined(t) == place[t] = "join" /\ place[Child1(t)] = "done"

Joined(t) == place[t] = "join" /\ place[Child1(t)] = "done" /\ place[Child2(t)] = "done"

\* merge_sort()
Divide(t) ==
  /\ work = "sort" /\ place[t] = "start"
  /\ IF low(t) < high(t) THEN Fork(t, <<low(t), mid(t)>>, <<mid(t) + 1, high(t)>>) ELSE Return(t, 0)
  /\ UNCHANGED <<work, given, fjArr, target, found, printed, fib_cache>>

Section(from, to) == [i \in 1 .. to - from + 1 |-> fjArr[from + i - 1]]

MergeCopy(t) ==
  /\ work = "sort" /\ Joined(t)
  /\ left' = [left EXCEPT ![t] = Section(low(t), mid(t))]
  /\ right' = [right EXCEPT ![t] = Section(mid(t) + 1, high(t))]
  /\ place' = [place EXCEPT ![t] = "merge"]
  /\ UNCHANGED <<work, given, fjArr, target, found, printed, fib_cache, arg, result>>

\* The next element goes back: the lesser of the two heads, that of left if they are equal.
MergeBack(t) ==
  LET l == left[t]  r == right[t]
      k == high(t) + 1 - Len(l) - Len(r)
      fromLeft == l # <<>> /\ (r # <<>> => Head(l) <= Head(r))
  IN  /\ work = "sort" /\ place[t] = "merge"
      /\ IF fromLeft
           THEN /\ fjArr' = [fjArr EXCEPT ![k] = Head(l)]
                /\ left' = [left EXCEPT ![t] = Tail(l)] /\ right' = right
           ELSE /\ fjArr' = [fjArr EXCEPT ![k] = Head(r)]
                /\ right' = [right EXCEPT ![t] = Tail(r)] /\ left' = left
      /\ place' = [place EXCEPT ![t] = IF k = high(t) THEN "done" ELSE "merge"]
      /\ UNCHANGED <<work, given, target, found, printed, fib_cache, arg, result>>

\* binary_search(): found is read at three times.
Look(t) ==
  /\ work = "search" /\ place[t] = "start"
  /\ IF low(t) > high(t) \/ found THEN Return(t, 0) ELSE Goes(t, "compare")
  /\ UNCHANGED <<work, given, fjArr, target, found, printed, fib_cache>>

CompareMid(t) ==
  /\ work = "search" /\ place[t] = "compare" /\ Goes(t, "divide")
  /\ IF fjArr[mid(t)] = target THEN found' = TRUE /\ printed' = printed \cup {<<t, mid(t)>>}
                             ELSE UNCHANGED <<found, printed>>
  /\ UNCHANGED <<work, given, fjArr, target, fib_cache>>

\* Unless it has found target itself, t may still use what found was at its start.
SearchBoth(t) ==
  /\ work = "search" /\ place[t] = "divide"
  /\ \/ found /\ Return(t, 0)
     \/ /\ \A q \in printed : q[1] # t
        /\ Fork(t, <<low(t), mid(t) - 1>>, <<mid(t) + 1, high(t)>>)
  /\ UNCHANGED <<work, given, fjArr, target, found, printed, fib_cache>>

SearchJoined(t) ==
  /\ work = "search" /\ Joined(t) /\ Return(t, 0)
  /\ UNCHANGED <<work, given, fjArr, target, found, printed, fib_cache>>

\* fibonacci()
Halves(t) ==
  /\ work = "fibonacci" /\ place[t] = "start"
  /\ IF arg[t][1] <= 1 THEN Return(t, arg[t][1]) ELSE Fork(t, <<arg[t][1] - 1>>, <<arg[t][1] - 2>>)
  /\ UNCHANGED <<work, given, fjArr, target, found, printed, fib_cache>>

Add(t) ==
  /\ work = "fibonacci" /\ Joined(t) /\ Return(t, result[Child1(t)] + result[Child2(t)])
  /\ fib_cache' = [fib_cache EXCEPT ![arg[t][1]] = result'[t]]
  /\ UNCHANGED <<work, given, fjArr, target, found, printed>>

merge_sort(t)    == Divide(t) \/ MergeCopy(t) \/ MergeBack(t)
binary_search(t) == Look(t) \/ CompareMid(t) \/ SearchBoth(t) \/ SearchJoined(t)
fibonacci(t)     == Halves(t) \/ Add(t)

ForkAllDone == place[<<>>] = "done"

\* main() has joined the first thread.
ForkTerminated == ForkAllDone /\ UNCHANGED joinVars

Step == \E t \in Created : merge_sort(t) \/ binary_search(t) \/ fibonacci(t)

ForkNext == ForkTerminated \/ Step

ForkSpec == ForkInit /\ [][ForkNext]_joinVars /\ WF_joinVars(Step)
-----------------------------------------------------------------------------
ForkTypeOK ==
  /\ place \in [Created -> {"start", "join", "merge", "compare", "divide", "done"}]
  /\ \A t \in Created : Len(t) > 0 => Front(t) \in Created

Merging == {t \in Created : place[t] = "merge"}

\* The elements of t's range that merge() has yet to write.
Unwritten(t) == high(t) + 1 - Len(left[t]) - Len(right[t]) .. high(t)

\* A range whose thread has ended is sorted until it is merged with another.  No element is
\* lost while others merge: what has yet to be written is in the copies, and with it the
\* array holds what it held at first.
PartsAreSorted ==
  work = "sort" =>
    /\ \A t \in Created :
         place[t] = "done" /\ (\A u \in Merging : ~ IsPrefix(u, t))
           => IsSorted(Section(low(t), high(t)), <=)
    /\ \A v \in 0 .. ForkMaxElement :
         LET Count(f, S) == Cardinality({i \in S : f[i] = v})
             OfCopies(t) == Count(left[t], DOMAIN left[t]) + Count(right[t], DOMAIN right[t])
             Settled     == DOMAIN fjArr \ UNION {Unwritten(t) : t \in Merging}
         IN  Count(fjArr, Settled) + MapThenSumSet(OfCopies, Merging) = Count(given, DOMAIN given)

\* Two threads work on one element only if one of them waits for the other.
RangesAreDisjoint ==
  work # "fibonacci" => \A t, u \in Created :
    place[t] \in {"merge", "compare", "divide"} /\ place[u] \in {"merge", "compare", "divide"}
      /\ t # u => high(t) < low(u) \/ high(u) < low(t)

\* However the threads race for found: target is reported once if the array has it,
\* and not at all otherwise.
FoundIfThere ==
  work = "search" =>
    /\ \A p \in printed : fjArr[p[2]] = target
    /\ Cardinality(printed) <= 1 /\ (found <=> printed # {})
    /\ ForkAllDone => (found <=> \E i \in DOMAIN fjArr : fjArr[i] = target)

Fib[i \in Nat] == IF i <= 1 THEN i ELSE Fib[i - 1] + Fib[i - 2]

\* A thread of fibonacci() returns the number of its argument, and the cache, which all
\* write without a lock, holds no other.
ResultsAreRight ==
  work = "fibonacci" =>
    /\ \A t \in Created : place[t] = "done" => result[t] = Fib[arg[t][1]]
    /\ \A i \in 0 .. size : fib_cache[i] \in {0, Fib[i]}
    /\ ForkAllDone /\ size > 1 => \A i \in 2 .. size : fib_cache[i] = Fib[i]

\* The safety of the programs that fork and join.
ForkJoinInv ==
  ForkTypeOK /\ PartsAreSorted /\ RangesAreDisjoint /\ FoundIfThere /\ ResultsAreRight

\* The first thread returns.
ForkJoinEnds == <>ForkAllDone
=============================================================================
