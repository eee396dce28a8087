----------------------------- MODULE SharedData -----------------------------
(***************************************************************************)
(* Five families of programs whose threads share data under locks: what    *)
(* they say in turn, records of several fields, a table with a lock per    *)
(* bucket, a list of words, and the buttons of a game. Each has its own    *)
(* variables, Init, Next and invariant; a run moves one of them.           *)
(***************************************************************************)
EXTENDS Pthreads, Sequences, Functions

(***************************************************************************)
(* Programs whose threads say numbers in turns under one mutex:            *)
(*                                                                         *)
(*   PThread-synchronization.c   two sellers sell tickets, one at a time;  *)
(*                               its copy in Faulty/ManyBugs has no lock   *)
(*   02test.c                    two threads count on, each in one turn    *)
(*   threadsAndMutexes.c         thread i says i * 10 messages, i per turn *)
(*                                                                         *)
(* What is sold, counted or said is kept in said, in the order it is.      *)
(***************************************************************************)
CONSTANTS Tickets,        \* tickets on sale (a bound; 20)
          Numbers,        \* each thread of 02test.c says that many (a bound; 20)
          Talkers,        \* threads of threadsAndMutexes.c (a bound; 5)
          Turns           \* turns of each of them (a bound; 10)

ASSUME AnnouncementsAssumption == {Tickets, Numbers, Talkers, Turns} \subseteq Nat \ {0}

Tellings == {"tickets", "tickets_unlocked", "02test.c", "threadsAndMutexes.c"}

VARIABLES telling,        \* the program that is run
          tickets, i_gloabl_n,
          said,           \* sequence of <<who, number>>
          teller,         \* the thread that has the mutex, or 0
          turnPc, iSaid,  \* of each thread: where it is, and the numbers of this turn
          count           \* of each thread: message, or the value it has loaded of tickets

announcementVars == <<telling, tickets, i_gloabl_n, said, teller, turnPc, iSaid, count>>

Teller == 1 .. IF telling = "threadsAndMutexes.c" THEN Talkers ELSE 2

limit(t)    == t * Turns
grouping(t) == t

TellingInit ==
  /\ telling \in Tellings
  /\ tickets = Tickets /\ i_gloabl_n = 0 /\ said = <<>> /\ teller = 0
  /\ turnPc = [t \in Teller |-> "out"] /\ iSaid = [t \in Teller |-> 0]
  /\ count = [t \in Teller |-> 1]

Say(t, number) == said' = Append(said, <<t, number>>)

Take(t) == teller = 0 /\ teller' = t

\* The turn of t goes on: it has said iSaid[t] + 1 numbers, and a turn has whole.
Stays(t, whole) == iSaid[t] + 1 < whole

EndOfTurn(t, whole, label) ==
  /\ iSaid' = [iSaid EXCEPT ![t] = IF Stays(t, whole) THEN @ + 1 ELSE 0]
  /\ IF Stays(t, whole) THEN UNCHANGED <<teller, turnPc>>
                    ELSE teller' = 0 /\ turnPc' = [turnPc EXCEPT ![t] = label]

\* mythread1() and mythread2(): a ticket, or the end of the sale.
mythread(t) ==
  /\ telling = "tickets" /\ turnPc[t] = "out" /\ teller = 0
  /\ IF tickets > 0 THEN Say(t, tickets) /\ tickets' = tickets - 1 /\ UNCHANGED turnPc
                    ELSE turnPc' = [turnPc EXCEPT ![t] = "done"] /\ UNCHANGED <<tickets, said>>
  /\ UNCHANGED <<telling, i_gloabl_n, teller, iSaid, count>>

\* Without the lock tickets is tested, loaded and stored at different times.
mythread_unlocked(t) ==
  /\ telling = "tickets_unlocked"
  /\ \/ /\ turnPc[t] = "out"
        /\ turnPc' = [turnPc EXCEPT ![t] = IF tickets > 0 THEN "load" ELSE "done"]
        /\ UNCHANGED <<tickets, said, count>>
     \/ /\ turnPc[t] = "load" /\ count' = [count EXCEPT ![t] = tickets]
        /\ turnPc' = [turnPc EXCEPT ![t] = "store"] /\ UNCHANGED <<tickets, said>>
     \/ /\ turnPc[t] = "store" /\ tickets' = count[t] - 1 /\ Say(t, count[t])
        /\ turnPc' = [turnPc EXCEPT ![t] = "out"] /\ UNCHANGED count
  /\ UNCHANGED <<telling, i_gloabl_n, teller, iSaid>>

thr_demo(t) ==
  /\ telling = "02test.c"
  /\ \/ /\ turnPc[t] = "out" /\ Take(t) /\ turnPc' = [turnPc EXCEPT ![t] = "in"]
        /\ UNCHANGED <<i_gloabl_n, said, iSaid>>
     \/ /\ turnPc[t] = "in" /\ i_gloabl_n' = i_gloabl_n + 1 /\ Say(t, i_gloabl_n')
        /\ EndOfTurn(t, Numbers, "done")
  /\ UNCHANGED <<telling, tickets, count>>

workerThreadFunc(t) ==
  /\ telling = "threadsAndMutexes.c"
  /\ \/ /\ turnPc[t] = "out" /\ count[t] <= limit(t) /\ Take(t)
        /\ turnPc' = [turnPc EXCEPT ![t] = "in"] /\ UNCHANGED <<said, iSaid, count>>
     \/ /\ turnPc[t] = "out" /\ count[t] > limit(t)
        /\ turnPc' = [turnPc EXCEPT ![t] = "done"] /\ UNCHANGED <<said, iSaid, count, teller>>
     \/ /\ turnPc[t] = "in" /\ Say(t, count[t]) /\ count' = [count EXCEPT ![t] = @ + 1]
        /\ EndOfTurn(t, grouping(t), "out")
  /\ UNCHANGED <<telling, tickets, i_gloabl_n>>

tell(t) == mythread(t) \/ mythread_unlocked(t) \/ thr_demo(t) \/ workerThreadFunc(t)

TellingAllDone == \A t \in Teller : turnPc[t] = "done"

\* main() has joined its threads.
TellingTerminated == TellingAllDone /\ UNCHANGED announcementVars

TellingNext == TellingTerminated \/ \E t \in Teller : tell(t)

TellingSpec == TellingInit /\ [][TellingNext]_announcementVars
-----------------------------------------------------------------------------
TellingTypeOK ==
  /\ teller \in Teller \cup {0} /\ turnPc \in [Teller -> {"out", "in", "load", "store", "done"}]
  /\ \A p \in Range(said) : p[1] \in Teller /\ p[2] \in Int

Told == [k \in 1 .. Len(said) |-> said[k][2]]

\* With the lock every ticket is sold once, from the last to the first.  Without it
\* each is still sold at least once, and two sellers sell one that is not there at most.
TicketsAreSold ==
  /\ telling = "tickets" => /\ Told = [k \in 1 .. Len(said) |-> Tickets + 1 - k]
                            /\ TellingAllDone => Len(said) = Tickets
  /\ telling = "tickets_unlocked" => /\ Range(Told) \subseteq 0 .. Tickets
                                     /\ TellingAllDone => 1 .. Tickets \subseteq Range(Told)

\* 02test.c counts without gaps, and neither thread interrupts the other.
CountsOn ==
  telling = "02test.c" =>
    /\ Told = [k \in 1 .. Len(said) |-> k]
    /\ \A k \in 1 .. Len(said) : said[k][1] = said[IF k <= Numbers THEN 1 ELSE Numbers + 1][1]
    /\ TellingAllDone => Len(said) = 2 * Numbers

\* The places in said of what thread t has said.
SaidBy(t) == {k \in 1 .. Len(said) : said[k][1] = t}

\* threadsAndMutexes.c: each says all its messages in order, and those of a turn together.
TurnsAreWhole ==
  telling = "threadsAndMutexes.c" =>
    /\ \A k \in 1 .. Len(said) : said[k][2] = Cardinality({j \in SaidBy(said[k][1]) : j <= k})
    /\ \A t \in Teller : turnPc[t] = "done" => Cardinality(SaidBy(t)) = limit(t)
    /\ \A k \in 1 .. Len(said) - 1 :
         said[k][2] % grouping(said[k][1]) # 0 => said[k + 1] = <<said[k][1], said[k][2] + 1>>

\* The safety of the programs that say numbers.
AnnouncementsInv == TellingTypeOK /\ TicketsAreSold /\ CountsOn /\ TurnsAreWhole
-----------------------------------------------------------------------------

(***************************************************************************)
(* Two programs in which a record of several fields is overwritten and     *)
(* read again and again, a field at a time, under one mutex:               *)
(*                                                                         *)
(*   employee_with_mutex.c  two threads copy their employee over the       *)
(*                          employee of the day; main() ends the program   *)
(*                          if the fields it finds do not belong together  *)
(*   023_sync_mutex.c       one thread writes two students in turn, one    *)
(*                          copies the student and prints it               *)
(*                                                                         *)
(* A field holds the number of the record it comes from; student 0 is the  *)
(* one of zeros the second program starts with.                            *)
(***************************************************************************)
CONSTANTS Checked         \* the fields of an employee that main() compares, in order (a bound)

ASSUME RecordsAssumption == Checked \in Seq(STRING)

VARIABLES kept,           \* the program that is run
          temp,           \* the shared record: field -> number of the record it comes from
          recLock, recPc,
          todo,           \* fields a writer has not copied yet
          turn,           \* i of fun_write()
          recK, recP,     \* of the reader: fields looked at, number it compares with
          local           \* what fun_read() has copied

recordVars == <<kept, temp, recLock, recPc, todo, turn, recK, recP, local>>

Employees == kept = "employee_with_mutex.c"

Field == IF Employees THEN {"number"} \cup {Checked[j] : j \in DOMAIN Checked}
                      ELSE {"name", "surname", "grade"}

Writer == IF Employees THEN {1, 2} ELSE {1}

RecordsInit ==
  /\ kept \in {"employee_with_mutex.c", "023_sync_mutex.c"}
  /\ temp = [f \in Field |-> IF Employees THEN 1 ELSE 0] /\ local = temp
  /\ recLock = NoThread /\ recPc = [t \in {"1", "2", "reader"} |-> "lock"]
  /\ todo = [w \in {1, 2} |-> {}] /\ turn = 0 /\ recK = 0 /\ recP = 0

Name(w) == IF w = 1 THEN "1" ELSE "2"

RecordsGo(t, label) == recPc' = [recPc EXCEPT ![t] = label]

RecordsTakes(t) == Lock(recLock, t)

\* copy_employee() and the three assignments to temp: fields in any order, one at a time.
WriterLock(w) ==
  /\ recPc[Name(w)] = "lock" /\ RecordsTakes(Name(w)) /\ RecordsGo(Name(w), "copy")
  /\ todo' = [todo EXCEPT ![w] = Field] /\ UNCHANGED <<kept, temp, turn, recK, recP, local>>

\* The record written: that of the thread, or the students in turn.
Source(w) == IF Employees THEN w ELSE turn + 1

Copy(w) ==
  /\ recPc[Name(w)] = "copy"
  /\ \E f \in todo[w] : /\ temp' = [temp EXCEPT ![f] = Source(w)]
                        /\ todo' = [todo EXCEPT ![w] = @ \ {f}]
  /\ UNCHANGED <<kept, recLock, recPc, turn, recK, recP, local>>

WriterUnlock(w) ==
  /\ recPc[Name(w)] = "copy" /\ todo[w] = {} /\ Unlock(recLock) /\ RecordsGo(Name(w), "lock")
  /\ turn' = IF Employees THEN turn ELSE (turn + 1) % 2
  /\ UNCHANGED <<kept, temp, todo, recK, recP, local>>

write(w) == WriterLock(w) \/ Copy(w) \/ WriterUnlock(w)

ReaderLock ==
  /\ recPc["reader"] = "lock" /\ RecordsTakes("reader") /\ RecordsGo("reader", "look") /\ recK' = 0
  /\ recP' = IF Employees THEN temp["number"] ELSE recP
  /\ UNCHANGED <<kept, temp, todo, turn, local>>

\* main() compares the next field; exit() leaves everything as it is.
Compare ==
  /\ Employees /\ recPc["reader"] = "look" /\ recK < Len(Checked)
  /\ IF temp[Checked[recK + 1]] = recP THEN recK' = recK + 1 /\ UNCHANGED recPc
                                 ELSE RecordsGo("reader", "mismatching") /\ UNCHANGED recK
  /\ UNCHANGED <<kept, temp, recLock, todo, turn, recP, local>>

\* memcpy() of the student; what is copied is kept to be printed.
CopyStudent ==
  /\ ~Employees /\ recPc["reader"] = "look" /\ recK < 3 /\ recK' = recK + 1
  /\ local' = LET f == <<"name", "surname", "grade">>[recK + 1] IN [local EXCEPT ![f] = temp[f]]
  /\ UNCHANGED <<kept, temp, recLock, recPc, todo, turn, recP>>

ReaderUnlock ==
  /\ recPc["reader"] = "look" /\ recK = IF Employees THEN Len(Checked) ELSE 3
  /\ Unlock(recLock) /\ RecordsGo("reader", "lock")
  /\ UNCHANGED <<kept, temp, todo, turn, recK, recP, local>>

read == ReaderLock \/ Compare \/ CopyStudent \/ ReaderUnlock

Exited == recPc["reader"] = "mismatching"

\* exit() ends all threads; what follows says that it is never called.
RecordsNext == ~Exited /\ (read \/ \E w \in Writer : write(w))

RecordsSpec == RecordsInit /\ [][RecordsNext]_recordVars
-----------------------------------------------------------------------------
RecordsTypeOK ==
  /\ temp \in [Field -> 0 .. 2] /\ local \in [Field -> 0 .. 2] /\ turn \in 0 .. 1
  /\ recLock \in {"1", "2", "reader", NoThread}

IsWhole(record) == \A f, g \in DOMAIN record : record[f] = record[g]

\* main() of employee_with_mutex.c never gets to an exit(), and what fun_read() prints is
\* one student; nobody sees the record half written.
ReadsAreWhole ==
  /\ ~Exited
  /\ recPc["reader"] = "lock" => IsWhole(local)
  /\ recLock \in {NoThread, "reader"} => IsWhole(temp)

\* The safety of the programs that keep a record.
RecordsInv == RecordsTypeOK /\ ReadsAreWhole
-----------------------------------------------------------------------------

(***************************************************************************)
(* parallel_mutex.c: threads insert keys into a table of NUM_BUCKETS lists *)
(* each with a mutex of its own, and when all have ended others look the   *)
(* keys up without any.  The key of position j is keys[j]; two positions   *)
(* may have the same key, and each insert has a node of its own, named by  *)
(* the position.                                                           *)
(***************************************************************************)
CONSTANTS num_threads, NUM_BUCKETS, NUM_KEYS,
          MaxKey          \* keys are 0 .. MaxKey (a bound; the range of random())

ASSUME HashTableAssumption ==
  /\ {num_threads, NUM_BUCKETS} \subseteq Nat \ {0} /\ {NUM_KEYS, MaxKey} \subseteq Nat

VARIABLES keys,
          table,          \* of each bucket: its first node, or NULL
          key_, val, next_,\* of each node
          bucketLock,     \* of each bucket: threads that hold its mutex
          tabPc, key,     \* of each thread: where it is, and the position it has come to
          lostKeys        \* of each thread: what get_phase() returns

tableVars == <<keys, table, key_, val, next_, bucketLock, tabPc, key, lostKeys>>

TableThreads  == 0 .. num_threads - 1
Position == 0 .. NUM_KEYS - 1
NULL     == -1

TableInit ==
  /\ keys \in [Position -> 0 .. MaxKey]
  /\ table = [b \in 0 .. NUM_BUCKETS - 1 |-> NULL] /\ bucketLock = [b \in DOMAIN table |-> {}]
  /\ key_ = [j \in Position |-> NULL] /\ val = key_ /\ next_ = key_
  /\ tabPc = [t \in TableThreads |-> "put"] /\ key = [t \in TableThreads |-> t]
  /\ lostKeys = [t \in TableThreads |-> 0]

Bucket(k) == k % NUM_BUCKETS

Free(b) == bucketLock[b] = {}

\* insert(), with the node as malloc() made it: the load of the head, and the store.
InsertLoad(t) ==
  /\ tabPc[t] = "put" /\ key[t] < NUM_KEYS
  /\ LET j == key[t]  b == Bucket(keys[j]) IN
       /\ Free(b) /\ bucketLock' = [bucketLock EXCEPT ![b] = @ \cup {t}]
       /\ next_' = [next_ EXCEPT ![j] = table[b]]
       /\ key_' = [key_ EXCEPT ![j] = keys[j]] /\ val' = [val EXCEPT ![j] = t]
  /\ tabPc' = [tabPc EXCEPT ![t] = "link"] /\ UNCHANGED <<keys, table, key, lostKeys>>

InsertLink(t) ==
  /\ tabPc[t] = "link"
  /\ LET b == Bucket(keys[key[t]]) IN
       /\ table' = [table EXCEPT ![b] = key[t]]
       /\ bucketLock' = [bucketLock EXCEPT ![b] = @ \ {t}]
  /\ tabPc' = [tabPc EXCEPT ![t] = "put"] /\ key' = [key EXCEPT ![t] = @ + num_threads]
  /\ UNCHANGED <<keys, key_, val, next_, lostKeys>>

put_phase(t) ==
  \/ InsertLoad(t) \/ InsertLink(t)
  \/ /\ tabPc[t] = "put" /\ key[t] >= NUM_KEYS /\ tabPc' = [tabPc EXCEPT ![t] = "put_done"]
     /\ UNCHANGED <<keys, table, key_, val, next_, bucketLock, key, lostKeys>>

\* main() joins the threads of the first phase and starts those of the second.
SecondPhase ==
  /\ \A t \in TableThreads : tabPc[t] = "put_done"
  /\ tabPc' = [t \in TableThreads |-> "get"] /\ key' = [t \in TableThreads |-> t]
  /\ UNCHANGED <<keys, table, key_, val, next_, bucketLock, lostKeys>>

\* The nodes that are linked in S, and the head of bucket b, are in S again.
Closed(b, S) == {table[b]} \cup {next_[j] : j \in S} \subseteq S \cup {NULL}

\* The nodes reached from the head of bucket b.
Chain(b) == {j \in Position : \A S \in SUBSET Position : Closed(b, S) => j \in S}

retrieve(k) == \E j \in Chain(Bucket(k)) : key_[j] = k

get_phase(t) ==
  /\ tabPc[t] = "get"
  /\ IF key[t] < NUM_KEYS
       THEN /\ key' = [key EXCEPT ![t] = @ + num_threads] /\ UNCHANGED tabPc
            /\ lostKeys' = [lostKeys EXCEPT ![t] = @ + IF retrieve(keys[key[t]]) THEN 0 ELSE 1]
       ELSE /\ tabPc' = [tabPc EXCEPT ![t] = "done"] /\ UNCHANGED <<key, lostKeys>>
  /\ UNCHANGED <<keys, table, key_, val, next_, bucketLock>>

TableAllDone == \A t \in TableThreads : tabPc[t] = "done"

TableTerminated == TableAllDone /\ UNCHANGED tableVars

TableNext == TableTerminated \/ SecondPhase \/ \E t \in TableThreads : put_phase(t) \/ get_phase(t)

TableSpec == TableInit /\ [][TableNext]_tableVars
-----------------------------------------------------------------------------
TableTypeOK ==
  /\ table \in [0 .. NUM_BUCKETS - 1 -> Position \cup {NULL}]
  /\ next_ \in [Position -> Position \cup {NULL}] /\ lostKeys \in [TableThreads -> 0 .. NUM_KEYS]

Inserted == {j \in Position : \E t \in TableThreads :
               j % num_threads = t /\ (tabPc[t] \notin {"put", "link"} \/ j < key[t])}

\* Each bucket holds exactly the nodes that were inserted into it, whatever the others
\* insert into theirs.
BucketsAreComplete ==
  \A b \in DOMAIN table :
    Chain(b) = {j \in Inserted : Bucket(keys[j]) = b}

\* get_phase() loses no key and puts the node of the right thread into the right list.
NoKeyIsLost ==
  /\ \A t \in TableThreads : lostKeys[t] = 0
  /\ \A j \in Inserted : key_[j] = keys[j] /\ val[j] = j % num_threads

\* The safety of the hash table.
HashTableInv == TableTypeOK /\ BucketsAreComplete /\ NoKeyIsLost
-----------------------------------------------------------------------------

(***************************************************************************)
(* dns-discovery.c: every thread copies the word list, which all of them   *)
(* read through one FILE, looks up each word of its copy, and writes what  *)
(* it finds about a name as a block of lines.  One mutex guards both the   *)
(* position in the list and the output.                                    *)
(*                                                                         *)
(* A word is its number in the list; what the resolver knows of a name is  *)
(* a number of addresses, and 0 that it fails.  The banner, the report     *)
(* file, which is written with every line, and the options are left out.   *)
(***************************************************************************)
CONSTANTS nthreads, Words, MaxAddresses   \* the last two are bounds

ASSUME WordListsAssumption == {nthreads, Words, MaxAddresses} \subseteq Nat

VARIABLES addresses,      \* what getaddrinfo() knows of each word
          position,       \* of the wordlist FILE: words read since rewind()
          local_wordlist, \* of each thread: words in its copy
          wordPc, line,   \* of each thread: where it is, and the word it has come to
          ai,             \* of each thread: addresses it has written of this word
          mutexsum,       \* the thread that holds the mutex, or 0
          output          \* lines <<thread, word, number of the line>>; 0 is the name

wordVars == <<addresses, position, local_wordlist, wordPc, line, ai, mutexsum, output>>

WordsThreads == 1 .. nthreads

WordsInit ==
  /\ addresses \in [1 .. Words -> 0 .. MaxAddresses]
  /\ position = Words /\ mutexsum = 0 /\ output = <<>>
  /\ local_wordlist = [t \in WordsThreads |-> <<>>] /\ wordPc = [t \in WordsThreads |-> "start"]
  /\ line = [t \in WordsThreads |-> 1] /\ ai = [t \in WordsThreads |-> 0]

WordsGo(t, label) == wordPc' = [wordPc EXCEPT ![t] = label]

WordsTakes(t) == mutexsum = 0 /\ mutexsum' = t

\* dns_discovery_thread(): rewind(), one word after the other, and the end of the list.
Rewind(t) ==
  /\ wordPc[t] = "start" /\ WordsTakes(t) /\ position' = 0 /\ WordsGo(t, "copy")
  /\ UNCHANGED <<addresses, local_wordlist, line, ai, output>>

CopyWord(t) ==
  /\ wordPc[t] = "copy" /\ position < Words /\ position' = position + 1
  /\ local_wordlist' = [local_wordlist EXCEPT ![t] = Append(@, position')]
  /\ UNCHANGED <<addresses, wordPc, line, ai, mutexsum, output>>

Copied(t) ==
  /\ wordPc[t] = "copy" /\ position = Words /\ mutexsum' = 0 /\ WordsGo(t, "lookup")
  /\ UNCHANGED <<addresses, position, local_wordlist, line, ai, output>>

Word(t) == local_wordlist[t][line[t]]

\* dns_discovery() and resolve_lookup(): a name that is not found is passed over.
NotFound(t) ==
  /\ wordPc[t] = "lookup" /\ line[t] <= Len(local_wordlist[t]) /\ addresses[Word(t)] = 0
  /\ line' = [line EXCEPT ![t] = @ + 1]
  /\ UNCHANGED <<addresses, position, local_wordlist, wordPc, ai, mutexsum, output>>

NameFound(t) ==
  /\ wordPc[t] = "lookup" /\ line[t] <= Len(local_wordlist[t]) /\ addresses[Word(t)] > 0
  /\ WordsTakes(t) /\ WordsGo(t, "write") /\ ai' = [ai EXCEPT ![t] = 0]
  /\ output' = Append(output, <<t, Word(t), 0>>)
  /\ UNCHANGED <<addresses, position, local_wordlist, line>>

WriteAddress(t) ==
  /\ wordPc[t] = "write" /\ ai[t] < addresses[Word(t)] /\ ai' = [ai EXCEPT ![t] = @ + 1]
  /\ output' = Append(output, <<t, Word(t), ai'[t]>>)
  /\ UNCHANGED <<addresses, position, local_wordlist, wordPc, line, mutexsum>>

Written(t) ==
  /\ wordPc[t] = "write" /\ ai[t] = addresses[Word(t)] /\ mutexsum' = 0 /\ WordsGo(t, "lookup")
  /\ line' = [line EXCEPT ![t] = @ + 1]
  /\ UNCHANGED <<addresses, position, local_wordlist, ai, output>>

LastWord(t) ==
  /\ wordPc[t] = "lookup" /\ line[t] > Len(local_wordlist[t]) /\ WordsGo(t, "done")
  /\ UNCHANGED <<addresses, position, local_wordlist, line, ai, mutexsum, output>>

resolve_lookup(t) == NotFound(t) \/ NameFound(t) \/ WriteAddress(t) \/ Written(t)

dns_discovery_thread(t) ==
  Rewind(t) \/ CopyWord(t) \/ Copied(t) \/ resolve_lookup(t) \/ LastWord(t)

WordsAllDone == \A t \in WordsThreads : wordPc[t] = "done"

\* main() has joined the threads.
WordsTerminated == WordsAllDone /\ UNCHANGED wordVars

WordsNext == WordsTerminated \/ \E t \in WordsThreads : dns_discovery_thread(t)

WordsSpec == WordsInit /\ [][WordsNext]_wordVars
-----------------------------------------------------------------------------
WordsTypeOK ==
  /\ position \in 0 .. Words /\ mutexsum \in WordsThreads \cup {0}
  /\ \A t \in WordsThreads : line[t] \in 1 .. Words + 1 /\ ai[t] \in 0 .. MaxAddresses

\* Although the threads share one position in the list, each copies all of it.
CopiesAreWhole ==
  \A t \in WordsThreads : wordPc[t] \notin {"start", "copy"} =>
    local_wordlist[t] = [w \in 1 .. Words |-> w]

\* The lines about a name stand together, and at the end each thread has written about
\* every name that was found, once.
BlocksAreWhole ==
  /\ \A k \in 1 .. Len(output) - 1 : LET l == output[k] IN
       l[3] < addresses[l[2]] => output[k + 1] = <<l[1], l[2], l[3] + 1>>
  /\ WordsAllDone =>
       /\ Range(output) = {l \in WordsThreads \X (1 .. Words) \X (0 .. MaxAddresses) :
                             addresses[l[2]] > 0 /\ l[3] <= addresses[l[2]]}
       /\ IsInjective(output)

\* The safety of dns-discovery.c.
WordListsInv == WordsTypeOK /\ CopiesAreWhole /\ BlocksAreWhole
-----------------------------------------------------------------------------

(***************************************************************************)
(* mode_extra.c: a game.  A worker lights buttons, takes time from those   *)
(* that are lit and puts out those whose time is over, which costs a       *)
(* point; the main thread puts out the lit ones that are pressed for a     *)
(* point and takes one for each that is not lit.  The mutex guards answer  *)
(* and score, and the main thread sets terminated, joins the worker and    *)
(* frees the state.                                                        *)
(*                                                                         *)
(* A pass of the worker is two steps, so that what the mutex does can be   *)
(* seen: time and expiry, then the new button.  Time is what may pass      *)
(* between two passes; the messages to the output are left out.            *)
(***************************************************************************)
CONSTANTS Buttons,        \* SWITCH_BUTTON_NUM of them (a bound; 9)
          MaxRest,        \* time a button is lit at most (a bound)
          MaxLit          \* buttons lit in all (a bound)

ASSUME ModeExtraAssumption == IsFiniteSet(Buttons) /\ {MaxRest, MaxLit} \subseteq Nat

VARIABLES answer, rest_time, score, terminated, modeMutex,
          workerPc, mainPc, correct, incorrect,
          isFree,         \* free(status) is called
          lit, hit, expired   \* how many buttons were lit, hit in time, and not

modeVars == <<answer, rest_time, score, terminated, modeMutex, workerPc, mainPc,
              correct, incorrect, isFree, lit, hit, expired>>

ModeInit ==
  /\ answer = {} /\ rest_time = [b \in Buttons |-> 0] /\ score = 0 /\ terminated = FALSE
  /\ modeMutex = NoThread /\ workerPc = "loop" /\ mainPc = "game"
  /\ correct = {} /\ incorrect = {} /\ isFree = FALSE /\ lit = 0 /\ hit = 0 /\ expired = 0

\* mode_extra_switch(): what is right and wrong is worked out, then counted.
SwitchLock ==
  /\ mainPc = "game" /\ Lock(modeMutex, "main") /\ mainPc' = "count"
  /\ \E data \in (SUBSET Buttons) \ {{}} : /\ correct' = answer \cap data
                                         /\ incorrect' = data \ answer
  /\ UNCHANGED <<answer, rest_time, score, terminated, workerPc, isFree, lit, hit, expired>>

NotBelowZero(points) == IF points < 0 THEN 0 ELSE points

SwitchCount ==
  /\ mainPc = "count" /\ mainPc' = "game" /\ Unlock(modeMutex)
  /\ answer' = (answer \ correct) \cup (correct \ answer)
  /\ score' = NotBelowZero(score + Cardinality(correct) - Cardinality(incorrect))
  /\ hit' = hit + Cardinality(correct)
  /\ UNCHANGED <<rest_time, terminated, workerPc, correct, incorrect, isFree, lit, expired>>

Terminate ==
  /\ mainPc = "game" /\ terminated' = TRUE /\ mainPc' = "join"
  /\ UNCHANGED <<answer, rest_time, score, modeMutex, workerPc, correct, incorrect, isFree,
                 lit, hit, expired>>

ModeJoined == workerPc = "done"

Destroy ==
  /\ mainPc = "join" /\ ModeJoined /\ isFree' = TRUE /\ mainPc' = "done"
  /\ UNCHANGED <<answer, rest_time, score, terminated, modeMutex, workerPc, correct, incorrect,
                 lit, hit, expired>>

mode_extra_switch  == SwitchLock \/ SwitchCount
mode_extra_destroy == Terminate \/ Destroy

WorkerTest ==
  /\ workerPc = "loop" /\ workerPc' = IF terminated THEN "done" ELSE "lock"
  /\ UNCHANGED <<answer, rest_time, score, terminated, modeMutex, mainPc, correct, incorrect,
                 isFree, lit, hit, expired>>

\* The lit buttons whose time is over after gap more.
Over(gap) == {b \in answer : rest_time[b] - gap < 0}

\* BUG: the worker does not wait for the mutex.
BugWorkerTakes == modeMutex' = "worker"

WorkerTakes == Lock(modeMutex, "worker")

Age ==
  /\ workerPc = "lock" /\ WorkerTakes /\ workerPc' = "light"
  /\ \E gap \in 1 .. 2 :
       /\ rest_time' = [b \in Buttons |-> IF b \in answer THEN rest_time[b] - gap ELSE rest_time[b]]
       /\ answer' = answer \ Over(gap)
       /\ score' = NotBelowZero(score - Cardinality(Over(gap)))
       /\ expired' = expired + Cardinality(Over(gap))
  /\ UNCHANGED <<terminated, mainPc, correct, incorrect, isFree, lit, hit>>

\* A new button if it is time for one; one that is lit gets new time.
Light ==
  /\ workerPc = "light" /\ workerPc' = "loop" /\ Unlock(modeMutex)
  /\ \/ UNCHANGED <<answer, rest_time, lit>>
     \/ \E no \in Buttons, rest \in 1 .. MaxRest :
          /\ lit < MaxLit /\ rest_time' = [rest_time EXCEPT ![no] = rest]
          /\ answer' = answer \cup {no} /\ lit' = IF no \in answer THEN lit ELSE lit + 1
  /\ UNCHANGED <<score, terminated, mainPc, correct, incorrect, isFree, hit, expired>>

background_worker_main == WorkerTest \/ Age \/ Light

Rest == mainPc = "done" /\ workerPc = "done" /\ UNCHANGED modeVars

ModeNext == mode_extra_switch \/ mode_extra_destroy \/ background_worker_main \/ Rest

ModeSpec == ModeInit /\ [][ModeNext]_modeVars
-----------------------------------------------------------------------------
ModeTypeOK ==
  /\ answer \subseteq Buttons /\ score \in Nat /\ modeMutex \in {"main", "worker", NoThread}
  /\ \A b \in answer : rest_time[b] \in 0 .. MaxRest

\* A button that is lit is put out once, by a hit or by time, and never lit by a press.
EachIsHitOrExpires == lit = hit + expired + Cardinality(answer)

\* The score is at most what was hit.
ScoreIsEarned == score <= hit

\* The state is freed when nobody uses it any more.
FreedUnused == isFree => workerPc = "done" /\ modeMutex = NoThread

\* The safety of the game.
ModeExtraInv == ModeTypeOK /\ EachIsHitOrExpires /\ ScoreIsEarned /\ FreedUnused
-----------------------------------------------------------------------------
\* Data shared record by record, bucket by bucket, word by word and button by button, and
\* what the threads say of it.
SharedDataInv ==
  AnnouncementsInv /\ RecordsInv /\ HashTableInv /\ WordListsInv /\ ModeExtraInv
=============================================================================
