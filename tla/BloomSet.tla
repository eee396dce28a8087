------------------------------ MODULE BloomSet ------------------------------
(***************************************************************************)
(* Fixed/NoBug2/hashInvertM.c: finds the set that a Bloom filter stands    *)
(* for.  48 threads take the words of the filter one by one and first      *)
(* count its ones; then, if there are few, they add to the empty set M the *)
(* members among the vertices that hash to a one, and otherwise they       *)
(* remove from the full set those that hash to a zero.                     *)
(*                                                                         *)
(* The words are handed out under m_nextLoc, the counts are added under    *)
(* mutexes of their own, but the words of M and of checked are loaded and  *)
(* stored without any: another thread's change of the same word is lost.   *)
(* The filter and its hash functions are external: each word has a number  *)
(* of ones and the vertices that its ones, or its zeros, lead to.  That    *)
(* reconstruct0 also clears the bit of the first sample that is no vertex  *)
(* any more is left out.                                                   *)
(***************************************************************************)
EXTENDS Pthreads, Sequences

CONSTANTS BloomWorker,      \* 48 threads
          FilterWords,      \* ceilDiv(VECT_SIZE, NUM_BITS) words of the filter
          VECT_SIZE,        \* bits of the filter
          Vertex, WordOf,   \* the vertices, and the word of M of each
          Member,           \* the vertices for which is_in says yes
          Filters           \* the filters considered (a bound)

ASSUME BloomAssumption ==
  /\ IsFiniteSet(BloomWorker) /\ BloomWorker # {} /\ FilterWords \in Nat \ {0}
  /\ VECT_SIZE \in Nat /\ IsFiniteSet(Vertex) /\ Member \subseteq Vertex
  /\ WordOf \in [Vertex -> Nat]
  /\ \A f \in Filters : /\ f.ones \in [1 .. FilterWords -> Nat]
                        /\ f.vertices \in [1 .. FilterWords -> Seq(Vertex)]

FilterWord == 1 .. FilterWords
Set  == {WordOf[v] : v \in Vertex}         \* the words of M and of checked
In(w) == {v \in Vertex : WordOf[v] = w}

VARIABLES filter, phase, nextLoc, totalOnes, numMemberships, M, checked,
          blPc, nL, blN, copy, localCount,     \* of each thread
          taken,        \* history: by whom each word of the filter was taken
          rewritten     \* history: who has stored each word of M

sets    == <<M, checked, rewritten>>
counts  == <<totalOnes, numMemberships>>
handout == <<nextLoc, taken>>
bloomVars == <<filter, phase, handout, counts, sets, blPc, nL, blN, copy, localCount>>

BloomInit ==
  /\ filter \in Filters /\ phase = "count"
  /\ nextLoc = 1 /\ totalOnes = 0 /\ numMemberships = 0
  /\ M = [w \in Set |-> {}] /\ checked = [w \in Set |-> {}]
  /\ blPc = [t \in BloomWorker |-> "take"]
  /\ nL = [t \in BloomWorker |-> 1] /\ blN = [t \in BloomWorker |-> 1]
  /\ copy = [t \in BloomWorker |-> {}] /\ localCount = [t \in BloomWorker |-> 0]
  /\ taken = [w \in FilterWord |-> {}] /\ rewritten = [w \in Set |-> {}]

BloomGoto(t, label) == blPc' = [blPc EXCEPT ![t] = label]
-----------------------------------------------------------------------------

HasNext == nextLoc <= FilterWords

\* The next word, under m_nextLoc; none is left when the thread ends.
TakeWord(t) ==
  /\ blPc[t] = "take"
  /\ IF HasNext
       THEN /\ nL' = [nL EXCEPT ![t] = nextLoc] /\ nextLoc' = nextLoc + 1
            /\ taken' = [w \in FilterWord |-> IF w = nextLoc THEN taken[w] \cup {t} ELSE taken[w]]
            /\ BloomGoto(t, IF phase = "count" THEN "count" ELSE "next")
       ELSE BloomGoto(t, "ended") /\ UNCHANGED <<nL, handout>>
  /\ blN' = [blN EXCEPT ![t] = 1] /\ localCount' = [localCount EXCEPT ![t] = 0]
  /\ UNCHANGED <<filter, phase, counts, sets, copy>>

Sum_(t) == totalOnes + filter.ones[nL[t]]

\* countOnes, under m_totalOnes.
CountOnes(t) ==
  /\ blPc[t] = "count" /\ totalOnes' = Sum_(t) /\ BloomGoto(t, "take")
  /\ UNCHANGED <<filter, phase, handout, numMemberships, sets, nL, blN, copy, localCount>>
-----------------------------------------------------------------------------
Vertices(t) == filter.vertices[nL[t]]
At(t)       == Vertices(t)[blN[t]]
WordAt(t)   == WordOf[At(t)]

NextN(t) == blN[t] + 1

\* The next vertex of the word: reconstruct1 leaves out those that are checked.
NextVertex(t) ==
  /\ blPc[t] = "next" /\ blN[t] <= Len(Vertices(t))
  /\ \/ phase = "zeros" /\ BloomGoto(t, "loadM") /\ UNCHANGED blN
     \/ phase = "ones" /\ At(t) \notin checked[WordAt(t)] /\ BloomGoto(t, "loadC") /\ UNCHANGED blN
     \/ phase = "ones" /\ At(t) \in checked[WordAt(t)] /\ UNCHANGED blPc
        /\ blN' = [blN EXCEPT ![t] = NextN(t)]
  /\ UNCHANGED <<filter, phase, handout, counts, sets, nL, copy, localCount>>

\* setLocation(sample, checked): a load and a store.
LoadChecked(t) ==
  /\ blPc[t] = "loadC" /\ copy' = [copy EXCEPT ![t] = checked[WordAt(t)]] /\ BloomGoto(t, "storeC")
  /\ UNCHANGED <<filter, phase, handout, counts, sets, nL, blN, localCount>>

IsIn(v) == v \in Member

StoreChecked(t) ==
  /\ blPc[t] = "storeC"
  /\ checked' = [checked EXCEPT ![WordAt(t)] = copy[t] \cup {At(t)}]
  /\ localCount' = [localCount EXCEPT ![t] = @ + 1]
  /\ IF IsIn(At(t)) THEN BloomGoto(t, "loadM") /\ UNCHANGED blN
                    ELSE BloomGoto(t, "next") /\ blN' = [blN EXCEPT ![t] = NextN(t)]
  /\ UNCHANGED <<filter, phase, handout, counts, M, rewritten, nL, copy>>

\* setLocation(sample, M) or resetLocation(sample): a load and a store.
LoadM(t) ==
  /\ blPc[t] = "loadM" /\ copy' = [copy EXCEPT ![t] = M[WordAt(t)]] /\ BloomGoto(t, "storeM")
  /\ UNCHANGED <<filter, phase, handout, counts, sets, nL, blN, localCount>>

\* BUG: the bit is assigned to the word.
BugWithBit(t) == IF phase = "ones" THEN {At(t)} ELSE copy[t] \ {At(t)}

WithBit(t) == IF phase = "ones" THEN copy[t] \cup {At(t)} ELSE copy[t] \ {At(t)}

StoreM(t) ==
  /\ blPc[t] = "storeM" /\ M' = [M EXCEPT ![WordAt(t)] = WithBit(t)]
  /\ rewritten' = [rewritten EXCEPT ![WordAt(t)] = @ \cup {t}]
  /\ BloomGoto(t, "next") /\ blN' = [blN EXCEPT ![t] = NextN(t)]
  /\ UNCHANGED <<filter, phase, handout, counts, checked, nL, copy, localCount>>

\* The end of the word; reconstruct1 adds up under m_numMemberships.
EndWord(t) ==
  /\ blPc[t] = "next" /\ blN[t] > Len(Vertices(t)) /\ BloomGoto(t, "take")
  /\ numMemberships' = numMemberships + localCount[t]
  /\ UNCHANGED <<filter, phase, handout, totalOnes, sets, nL, blN, copy, localCount>>

worker(t) ==
  \/ TakeWord(t) \/ CountOnes(t) \/ NextVertex(t) \/ LoadChecked(t) \/ StoreChecked(t)
  \/ LoadM(t) \/ StoreM(t) \/ EndWord(t)
-----------------------------------------------------------------------------

Restart == nextLoc' = 1

\* main() joins the threads that count, and creates those that reconstruct.
Reconstruct ==
  /\ phase = "count" /\ \A t \in BloomWorker : blPc[t] = "ended"
  /\ phase' = IF totalOnes < VECT_SIZE \div 2 THEN "ones" ELSE "zeros"
  /\ Restart /\ taken' = [w \in FilterWord |-> {}]
  /\ M' = [w \in Set |-> IF phase' = "ones" THEN {} ELSE In(w)]
  /\ blPc' = [t \in BloomWorker |-> "take"]
  /\ UNCHANGED <<filter, counts, checked, rewritten, nL, blN, copy, localCount>>

\* ... joins those too, and counts what is in M.
CountMembers ==
  /\ phase \in {"ones", "zeros"} /\ \A t \in BloomWorker : blPc[t] = "ended"
  /\ phase' = "ended" /\ totalOnes' = Cardinality(UNION {M[w] : w \in Set})
  /\ UNCHANGED <<filter, handout, numMemberships, sets, blPc, nL, blN, copy, localCount>>

BloomTerminated == phase = "ended" /\ UNCHANGED bloomVars

BloomNext == Reconstruct \/ CountMembers \/ BloomTerminated \/ \E t \in BloomWorker : worker(t)

BloomSpec == BloomInit /\ [][BloomNext]_bloomVars

BloomFairSpec ==
  /\ BloomSpec /\ WF_bloomVars(Reconstruct) /\ WF_bloomVars(CountMembers)
  /\ \A t \in BloomWorker : WF_bloomVars(worker(t))
-----------------------------------------------------------------------------
\* The ones of some words of the filter, each by its word and its number.
OnesOf(S) == UNION {{w} \X (1 .. filter.ones[w]) : w \in S}
AllOnes   == Cardinality(OnesOf(FilterWord))
Found   == {v \in Vertex : \E w \in FilterWord :
              \E k \in DOMAIN filter.vertices[w] : filter.vertices[w][k] = v}

BloomTypeOK ==
  /\ filter \in Filters /\ phase \in {"count", "ones", "zeros", "ended"}
  /\ nextLoc \in 1 .. FilterWords + 1 /\ totalOnes \in Nat /\ numMemberships \in Nat
  /\ DOMAIN M = Set /\ DOMAIN checked = Set
  /\ \A w \in Set : M[w] \subseteq In(w) /\ checked[w] \subseteq In(w)
  /\ rewritten \in [Set -> SUBSET BloomWorker]
  /\ blPc \in [BloomWorker -> {"take", "count", "next", "loadC", "storeC", "loadM", "storeM",
                            "ended"}]
  /\ nL \in [BloomWorker -> FilterWord] /\ blN \in [BloomWorker -> Nat \ {0}]
  /\ copy \in [BloomWorker -> SUBSET Vertex]
  /\ localCount \in [BloomWorker -> Nat] /\ taken \in [FilterWord -> SUBSET BloomWorker]

\* Each phase ends with every word of the filter taken, by one thread.
EveryWordOnce ==
  (\A t \in BloomWorker : blPc[t] = "ended") => \A w \in FilterWord : Cardinality(taken[w]) = 1

\* The threads reconstruct from the ones exactly if they are less than half.
MethodIsRight ==
  phase \in {"ones", "zeros"} =>
    totalOnes = AllOnes /\ (phase = "ones") = (AllOnes < VECT_SIZE \div 2)

\* Whatever is lost, nothing but members is added, and nothing is removed but what
\* hashes to a zero.
OnlyWhatIsFound ==
  /\ phase = "ones" => \A w \in Set : M[w] \subseteq Member \cap Found
  /\ phase = "zeros" => \A w \in Set : In(w) \ Found \subseteq M[w]

\* The changes of a word that one thread alone has made are all there in the end;
\* those that several have made may be lost.
NothingIsLostAlone ==
  (\A t \in BloomWorker : blPc[t] = "ended") =>
    \A w \in Set : Cardinality(rewritten[w]) <= 1 =>
      /\ phase = "ones" => In(w) \cap Member \cap Found \subseteq M[w]
      /\ phase = "zeros" => M[w] \cap Found = {}

\* main() prints the result.
BloomEnds == <>(phase = "ended")

\* The safety of hashInvertM.c: the words are shared out exactly once per phase, the
\* method fits the ones counted, and only races lose what was found.
BloomInv ==
  /\ BloomTypeOK
  /\ EveryWordOnce
  /\ MethodIsRight
  /\ OnlyWhatIsFound
  /\ NothingIsLostAlone
=============================================================================
