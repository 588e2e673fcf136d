--------------------------- MODULE PriceBookProofs ---------------------------
(***************************************************************************)
(* The model prices for any number of threads, refreshers, models and      *)
(* feeds: what a process has loaded and memoised is what the file says,    *)
(* unless it may be behind, the memo never outgrows its bound, and the     *)
(* entry that answers is the one that is documented.                       *)
(***************************************************************************)
EXTENDS PriceBook, DataInduction

Known == {m \in Model : memo[m] # Unset}

(* A lookup in flight has a name, a writer has a feed, and only refreshers *)
(* of the process reset anything.                                          *)
InHand ==
  /\ \A t \in Thread : pc[t] # "idle" => asked[t] \in Model
  /\ \A r \in Refresher : rpc[r] = "writing" => raw[r] \in Raw
  /\ \A r \in Refresher : rpc[r] \in {"resetting", "clearing"} => r \in Inside

MemoBound == IsFiniteSet(Known) /\ Cardinality(Known) <= MemoSize

(* An inside refresher has changed the file and not yet reset the feed. *)
FeedStale == \E r \in Inside : rpc[r] \in {"writing", "resetting"}

(* A reset feed is read from the file as it is; the memo is only right     *)
(* once every refresh has cleared it.  A thread on its way between the     *)
(* file, the feed and the memo carries what the file says, and finds the   *)
(* feed that it stored.                                                    *)
FeedRight ==
  /\ feed \in {Unloaded, Content}
  /\ \A t \in Thread : pc[t] \in {"storing", "pricing"} => got[t] = Content

MemoRight == \A m \in Model : memo[m] \in {Unset, Lookup(Content, m)}

UpToDate ==
  ~behind => /\ ~FeedStale => FeedRight
             /\ ~Refreshing => MemoRight
             /\ \A t \in Thread : pc[t] = "returning" => feed # Unloaded

IInv == TypeOK /\ InHand /\ MemoBound /\ UpToDate

------------------------------------------------------------------------------
(* What refreshes write and lookups find (pricing.py:135-150, 197-216). *)
LEMMA Books ==
  /\ <<>> \in Book
  /\ \A new \in Raw : Parse(new) \in Book
  /\ \A b \in Book, m \in Model : Lookup(b, m) \in Answer
  /\ file \in Book \cup {Absent, Torn} => Content \in Book
<1>1. <<>> \in Book /\ \A new \in Raw : Parse(new) \in Book
  BY DEF Book
<1>2. \A b \in Book, m \in Model : Lookup(b, m) \in Answer
  BY DEF Answer
<1>3. file \in Book \cup {Absent, Torn} => Content \in Book
  BY <1>1 DEF Content
<1> QED
  BY <1>1, <1>2, <1>3

(* The memo keeps its bound when nothing is memoised. *)
LEMMA MemoKept == ASSUME MemoBound, memo' = memo PROVE MemoBound'
<1>1. Known' = Known
  BY DEF Known
<1> QED
  BY <1>1 DEF MemoBound

(* An empty memo is within its bound. *)
LEMMA MemoEmpty == ASSUME memo' = [m \in Model |-> Unset] PROVE MemoBound'
<1>1. Known' = {}
  BY DEF Known
<1> QED
  BY <1>1, FS_EmptySet, MemoAssumption DEF MemoBound

(* The module is imported (pricing.py:123-124). *)
LEMMA InitOK == Init => IInv
<1> SUFFICES ASSUME Init PROVE IInv
  OBVIOUS
<1>1. TypeOK
  BY Books DEF Init, TypeOK
<1>2. InHand
  BY DEF Init, InHand
<1>3. MemoBound
  <2>1. Known = {}
    BY DEF Known, Init
  <2> QED
    BY <2>1, FS_EmptySet, MemoAssumption DEF MemoBound
<1>4. UpToDate
  BY DEF Init, UpToDate, FeedRight, MemoRight
<1> QED
  BY <1>1, <1>2, <1>3, <1>4 DEF IInv

------------------------------------------------------------------------------
(* A lookup goes on; the file and the refreshers stay as they are. *)

FileKept == UNCHANGED <<file, raw, rpc, clash, behind>>

(* A step of a lookup only has to keep what the process holds.             *)
LEMMA LookupOK ==
  ASSUME UpToDate, FileKept,
         FeedRight => FeedRight',
         ~FeedStale /\ FeedRight /\ MemoRight => MemoRight',
         ~behind /\ (\A t \in Thread : pc[t] = "returning" => feed # Unloaded)
           => \A t \in Thread : pc'[t] = "returning" => feed' # Unloaded
  PROVE  UpToDate'
<1>1. Content' = Content /\ FeedStale' = FeedStale /\ Refreshing' = Refreshing
  BY DEF FileKept, Content, FeedStale, Refreshing
<1>2. FeedStale => Refreshing
  BY DEF FeedStale, Refreshing
<1> QED
  BY <1>1, <1>2 DEF UpToDate, FileKept

(* The memo has no answer (pricing.py:197-202). *)
LEMMA AskOK == ASSUME IInv, NEW t \in Thread, NEW m \in Model, Ask(t, m) PROVE IInv'
<1>t. TypeOK
  BY DEF IInv
<1>1. TypeOK'
  <2>1. asked' \in [Thread -> Model \cup {Unset}]
    BY <1>t DEF Ask, TypeOK
  <2>2. pc' \in [Thread -> {"idle", "reading", "storing", "returning", "pricing"}]
    BY <1>t DEF Ask, TypeOK
  <2>3. got' \in [Thread -> Book]
    BY <1>t DEF Ask, TypeOK
  <2> QED
    BY <1>t, <2>1, <2>2, <2>3 DEF Ask, TypeOK, refreshers
<1>2. InHand'
  BY <1>t DEF Ask, IInv, InHand, TypeOK, refreshers
<1>3. MemoBound'
  BY MemoKept DEF Ask, IInv
<1>4. FileKept /\ file' = file /\ memo' = memo /\ feed' = feed
  BY DEF Ask, FileKept, refreshers
<1>5. Content' = Content
  BY <1>4 DEF Content
<1>6. FeedRight => FeedRight'
  BY <1>t, <1>4, <1>5 DEF Ask, FeedRight, TypeOK
<1>7. MemoRight => MemoRight'
  BY <1>4, <1>5 DEF MemoRight
<1>8. (\A u \in Thread : pc[u] = "returning" => feed # Unloaded)
        => \A u \in Thread : pc'[u] = "returning" => feed' # Unloaded
  BY <1>t, <1>4 DEF Ask, TypeOK
<1> QED
  BY <1>1, <1>2, <1>3, <1>4, <1>6, <1>7, <1>8, LookupOK DEF IInv

(* The file is read (pricing.py:173-174). *)
LEMMA ReadOK == ASSUME IInv, NEW t \in Thread, ReadFile(t) PROVE IInv'
<1>t. TypeOK /\ Content \in Book
  BY Books DEF IInv, TypeOK
<1>1. TypeOK'
  BY <1>t DEF ReadFile, TypeOK, refreshers
<1>2. InHand'
  BY <1>t DEF ReadFile, IInv, InHand, TypeOK, refreshers
<1>3. MemoBound'
  BY MemoKept DEF ReadFile, IInv
<1>4. FileKept /\ file' = file /\ memo' = memo /\ feed' = feed
  BY DEF ReadFile, FileKept, refreshers
<1>5. Content' = Content
  BY <1>4 DEF Content
<1>6. FeedRight => FeedRight'
  BY <1>t, <1>4, <1>5 DEF ReadFile, FeedRight, TypeOK
<1>7. MemoRight => MemoRight'
  BY <1>4, <1>5 DEF MemoRight
<1>8. (\A u \in Thread : pc[u] = "returning" => feed # Unloaded)
        => \A u \in Thread : pc'[u] = "returning" => feed' # Unloaded
  BY <1>t, <1>4 DEF ReadFile, TypeOK
<1> QED
  BY <1>1, <1>2, <1>3, <1>4, <1>6, <1>7, <1>8, LookupOK DEF IInv

(* What was read becomes the feed (pricing.py:174-176). *)
LEMMA StoreOK == ASSUME IInv, NEW t \in Thread, StoreFeed(t) PROVE IInv'
<1>t. TypeOK /\ got[t] \in Book /\ pc[t] = "storing"
  BY DEF IInv, TypeOK, StoreFeed
<1>1. TypeOK'
  BY <1>t DEF StoreFeed, TypeOK, refreshers
<1>2. InHand'
  BY <1>t DEF StoreFeed, IInv, InHand, TypeOK, refreshers
<1>3. MemoBound'
  BY MemoKept DEF StoreFeed, IInv
<1>4. FileKept /\ file' = file /\ memo' = memo /\ feed' = got[t] /\ got' = got
  BY DEF StoreFeed, FileKept, refreshers
<1>5. Content' = Content
  BY <1>4 DEF Content
<1>6. FeedRight => FeedRight'
  BY <1>t, <1>4, <1>5 DEF StoreFeed, FeedRight, TypeOK
<1>7. MemoRight => MemoRight'
  BY <1>4, <1>5 DEF MemoRight
<1>8. \A u \in Thread : pc'[u] = "returning" => feed' # Unloaded
  BY <1>t, <1>4, Sentinels
<1> QED
  BY <1>1, <1>2, <1>3, <1>4, <1>6, <1>7, <1>8, LookupOK DEF IInv

(* The global is read again, and was reset perhaps (pricing.py:177). *)
LEMMA ReturnOK == ASSUME IInv, NEW t \in Thread, ReturnFeed(t) PROVE IInv'
<1>t. TypeOK /\ <<>> \in Book /\ pc[t] = "returning"
  BY Books DEF IInv, TypeOK, ReturnFeed
<1>4. FileKept /\ file' = file /\ memo' = memo /\ feed' = feed
  BY DEF ReturnFeed, FileKept, refreshers
<1>1. TypeOK'
  <2>1. asked' \in [Thread -> Model \cup {Unset}]
    BY <1>t DEF ReturnFeed, Finish, TypeOK
  <2>2. pc' \in [Thread -> {"idle", "reading", "storing", "returning", "pricing"}]
    BY <1>t DEF ReturnFeed, Finish, TypeOK
  <2>3. got' \in [Thread -> Book]
    BY <1>t DEF ReturnFeed, Finish, TypeOK
  <2> QED
    BY <1>t, <2>1, <2>2, <2>3, <1>4 DEF FileKept, TypeOK
<1>2. InHand'
  BY <1>t, <1>4 DEF ReturnFeed, Finish, IInv, InHand, TypeOK, FileKept
<1>3. MemoBound'
  BY <1>4, MemoKept DEF IInv
<1>5. Content' = Content
  BY <1>4 DEF Content
<1>6. FeedRight => FeedRight'
  BY <1>t, <1>4, <1>5 DEF ReturnFeed, Finish, FeedRight, TypeOK
<1>7. MemoRight => MemoRight'
  BY <1>4, <1>5 DEF MemoRight
<1>8. (\A u \in Thread : pc[u] = "returning" => feed # Unloaded)
        => \A u \in Thread : pc'[u] = "returning" => feed' # Unloaded
  BY <1>t, <1>4 DEF ReturnFeed, Finish, TypeOK
<1> QED
  BY <1>1, <1>2, <1>3, <1>4, <1>6, <1>7, <1>8, LookupOK DEF IInv

(* A full memo forgets an answer for the one it takes (pricing.py:197).    *)
LEMMA MemoTakes ==
  ASSUME IInv, NEW t \in Thread, Memoise(t)
  PROVE  /\ memo' \in [Model -> Answer \cup {Unset}]
         /\ MemoBound'
         /\ \A m \in Model : memo'[m] \in {memo[m], Unset} \/ memo'[m] = Lookup(got[t], m)
<1> DEFINE m == asked[t]
           a == Lookup(got[t], m)
<1>t. /\ m \in Model /\ a \in Answer /\ a # Unset
      /\ memo \in [Model -> Answer \cup {Unset}]
  BY Books, NoAnswer DEF IInv, TypeOK, InHand, Memoise
<1>b. IsFiniteSet(Known) /\ Cardinality(Known) <= MemoSize
  BY DEF IInv, MemoBound
<1>1. CASE memo' = memo
  BY <1>1, <1>t, <1>b, MemoKept DEF MemoBound
<1>2. CASE memo[m] = Unset /\ Cardinality(Known) < MemoSize /\ memo' = [memo EXCEPT ![m] = a]
  <2>1. Known' = Known \cup {m} /\ m \notin Known
    BY <1>2, <1>t DEF Known
  <2>2. IsFiniteSet(Known') /\ Cardinality(Known') = Cardinality(Known) + 1
    BY <2>1, <1>b, FS_AddElement
  <2>3. MemoBound'
    BY <2>2, <1>2, <1>b, FS_CardinalityType, MemoAssumption DEF MemoBound
  <2> QED
    BY <2>3, <1>2, <1>t
<1>3. CASE /\ memo[m] = Unset
           /\ \E old \in Known : memo' = [memo EXCEPT ![old] = Unset, ![m] = a]
  <2>1. PICK old \in Known : memo' = [memo EXCEPT ![old] = Unset, ![m] = a]
    BY <1>3
  <2>2. Known' = (Known \ {old}) \cup {m} /\ m \notin Known \ {old}
    BY <2>1, <1>3, <1>t DEF Known
  <2>3. /\ IsFiniteSet(Known \ {old})
        /\ Cardinality(Known \ {old}) = Cardinality(Known) - 1
    BY <1>b, FS_RemoveElement
  <2>4. IsFiniteSet(Known') /\ Cardinality(Known') = Cardinality(Known)
    <3>1. /\ IsFiniteSet((Known \ {old}) \cup {m})
          /\ Cardinality((Known \ {old}) \cup {m}) = Cardinality(Known \ {old}) + 1
      BY <2>2, <2>3, FS_AddElement
    <3>2. Cardinality(Known) \in Nat
      BY <1>b, FS_CardinalityType
    <3> QED
      BY <2>2, <2>3, <3>1, <3>2
  <2>5. MemoBound'
    BY <2>4, <1>b DEF MemoBound
  <2> QED
    BY <2>5, <2>1, <1>t DEF Known
<1> QED
  BY <1>1, <1>2, <1>3 DEF Memoise, Known

(* The answer is memoised (pricing.py:197-216). *)
LEMMA MemoiseOK == ASSUME IInv, NEW t \in Thread, Memoise(t) PROVE IInv'
<1>t. TypeOK /\ <<>> \in Book /\ pc[t] = "pricing"
  BY Books DEF IInv, TypeOK, Memoise
<1>4. FileKept /\ file' = file /\ feed' = feed
  BY DEF Memoise, FileKept, refreshers
<1>1. TypeOK'
  <2>1. memo' \in [Model -> Answer \cup {Unset}]
    BY MemoTakes
  <2> QED
    BY <1>t, <2>1, <1>4 DEF Memoise, Finish, FileKept, TypeOK
<1>2. InHand'
  BY <1>t, <1>4 DEF Memoise, Finish, IInv, InHand, TypeOK, FileKept
<1>3. MemoBound'
  BY MemoTakes
<1>5. Content' = Content
  BY <1>4 DEF Content
<1>6. FeedRight => FeedRight'
  BY <1>t, <1>4, <1>5 DEF Memoise, Finish, FeedRight, TypeOK
<1>7. FeedRight /\ MemoRight => MemoRight'
  BY <1>t, <1>5, MemoTakes DEF FeedRight, MemoRight
<1>8. (\A u \in Thread : pc[u] = "returning" => feed # Unloaded)
        => \A u \in Thread : pc'[u] = "returning" => feed' # Unloaded
  BY <1>t, <1>4 DEF Memoise, Finish, TypeOK
<1> QED
  BY <1>1, <1>2, <1>3, <1>4, <1>6, <1>7, <1>8, LookupOK DEF IInv

------------------------------------------------------------------------------
(* A refresh goes on; the lookups stay where they are. *)

CacheKept == UNCHANGED <<feed, memo, pc, asked, got>>

(* A process that holds nothing is up to date, whatever the file says. *)
LEMMA ColdOK ==
  ASSUME TypeOK, ~Warm, CacheKept PROVE FeedRight' /\ MemoRight'
                                        /\ \A t \in Thread : pc'[t] # "returning"
BY DEF Warm, CacheKept, FeedRight, MemoRight, TypeOK

(* A file that another process changes leaves this one behind, if it holds *)
(* anything; so does a refresh of its own that fails.                      *)
LEMMA BehindOK ==
  ASSUME TypeOK, CacheKept, behind' = (behind \/ Warm) PROVE UpToDate'
BY ColdOK DEF UpToDate

(* A refresh begins (pricing.py:153-163). *)
LEMMA OpenOK ==
  ASSUME IInv, NEW r \in Refresher, NEW new \in Raw, OpenFile(r, new) PROVE IInv'
<1>t. TypeOK
  BY DEF IInv
<1>0. CacheKept
  BY DEF OpenFile, CacheKept, threads
<1>1. TypeOK'
  <2>1. raw' \in [Refresher -> Raw \cup {<<>>}]
    BY <1>t DEF OpenFile, TypeOK
  <2>2. rpc' \in [Refresher -> {"idle", "writing", "resetting", "clearing"}]
    BY <1>t DEF OpenFile, TypeOK
  <2>3. clash' \in SUBSET Refresher
    BY <1>t DEF OpenFile, TypeOK
  <2>4. file' \in Book \cup {Absent, Torn} /\ behind' \in BOOLEAN
    BY <1>t DEF OpenFile, TypeOK, Warm
  <2> QED
    BY <1>t, <1>0, <2>1, <2>2, <2>3, <2>4 DEF CacheKept, TypeOK
<1>2. InHand'
  BY <1>t, <1>0 DEF OpenFile, CacheKept, IInv, InHand, TypeOK
<1>3. MemoBound'
  BY <1>0, MemoKept DEF CacheKept, IInv
<1>4. UpToDate'
  <2>1. CASE r \in Inside
    <3>1. FeedStale' /\ Refreshing'
      BY <1>t, <2>1 DEF OpenFile, FeedStale, Refreshing, TypeOK
    <3>2. behind' = behind
      BY <1>t, <2>1 DEF OpenFile, TypeOK
    <3> QED
      BY <1>0, <3>1, <3>2 DEF CacheKept, UpToDate, IInv
  <2>2. CASE r \notin Inside
    BY <1>t, <1>0, <2>2, BehindOK DEF OpenFile
  <2> QED
    BY <2>1, <2>2
<1> QED
  BY <1>1, <1>2, <1>3, <1>4 DEF IInv

(* The file is written (pricing.py:163-164). *)
LEMMA CloseOK == ASSUME IInv, NEW r \in Refresher, CloseFile(r) PROVE IInv'
<1>t. TypeOK /\ raw[r] \in Raw /\ Parse(raw[r]) \in Book
  BY Books DEF IInv, InHand, CloseFile
<1>0. CacheKept
  BY DEF CloseFile, CacheKept, threads
<1>1. TypeOK'
  <2>1. raw' \in [Refresher -> Raw \cup {<<>>}]
    BY <1>t DEF CloseFile, TypeOK
  <2>2. rpc' \in [Refresher -> {"idle", "writing", "resetting", "clearing"}]
    BY <1>t DEF CloseFile, TypeOK
  <2>3. file' \in Book \cup {Absent, Torn}
    BY <1>t DEF CloseFile, TypeOK
  <2>4. behind' \in BOOLEAN /\ clash' \in SUBSET Refresher
    BY <1>t DEF CloseFile, TypeOK, Warm
  <2> QED
    BY <1>t, <1>0, <2>1, <2>2, <2>3, <2>4 DEF CacheKept, TypeOK
<1>2. InHand'
  BY <1>t, <1>0 DEF CloseFile, CacheKept, IInv, InHand, TypeOK
<1>3. MemoBound'
  BY <1>0, MemoKept DEF CacheKept, IInv
<1>4. UpToDate'
  <2>1. CASE r \in Inside
    <3>1. FeedStale' /\ Refreshing'
      BY <1>t, <2>1 DEF CloseFile, FeedStale, Refreshing, TypeOK
    <3>2. behind' = behind
      BY <1>t, <2>1 DEF CloseFile, TypeOK
    <3> QED
      BY <1>0, <3>1, <3>2 DEF CacheKept, UpToDate, IInv
  <2>2. CASE r \notin Inside
    BY <1>t, <1>0, <2>2, BehindOK DEF CloseFile
  <2> QED
    BY <2>1, <2>2
<1> QED
  BY <1>1, <1>2, <1>3, <1>4 DEF IInv

(* The write is cut off (pricing.py:163-164). *)
LEMMA AbandonOK == ASSUME IInv, NEW r \in Refresher, Abandon(r) PROVE IInv'
<1>t. TypeOK
  BY DEF IInv
<1>0. CacheKept
  BY DEF Abandon, CacheKept, threads
<1>1. TypeOK'
  BY <1>t, <1>0 DEF Abandon, CacheKept, TypeOK, Warm
<1>2. InHand'
  BY <1>t, <1>0 DEF Abandon, CacheKept, IInv, InHand, TypeOK
<1>3. MemoBound'
  BY <1>0, MemoKept DEF CacheKept, IInv
<1>4. UpToDate'
  BY <1>t, <1>0, BehindOK DEF Abandon
<1> QED
  BY <1>1, <1>2, <1>3, <1>4 DEF IInv

(* _FEED = None: the process is up to date if no lookup is in flight, once *)
(* the memo is cleared too (pricing.py:182).                               *)
LEMMA ResetOK == ASSUME IInv, NEW r \in Refresher, ResetFeed(r) PROVE IInv'
<1>t. TypeOK /\ r \in Inside
  BY DEF IInv, InHand, ResetFeed
<1>1. TypeOK'
  BY <1>t DEF ResetFeed, TypeOK, threads
<1>2. InHand'
  BY <1>t DEF ResetFeed, threads, IInv, InHand, TypeOK
<1>3. MemoBound'
  BY MemoKept DEF ResetFeed, IInv
<1>4. UpToDate'
  <2>1. Refreshing'
    BY <1>t DEF ResetFeed, Refreshing, TypeOK
  <2>2. ~behind' => FeedRight' /\ \A t \in Thread : pc'[t] # "returning"
    BY DEF ResetFeed, threads, FeedRight
  <2> QED
    BY <2>1, <2>2 DEF UpToDate
<1> QED
  BY <1>1, <1>2, <1>3, <1>4 DEF IInv

(* _lookup.cache_clear() (pricing.py:183). *)
LEMMA ClearOK == ASSUME IInv, NEW r \in Refresher, ClearMemo(r) PROVE IInv'
<1>t. TypeOK /\ r \in Inside
  BY DEF IInv, InHand, ClearMemo
<1>1. TypeOK'
  BY <1>t DEF ClearMemo, TypeOK, threads
<1>2. InHand'
  BY <1>t DEF ClearMemo, threads, IInv, InHand, TypeOK
<1>3. MemoBound'
  BY MemoEmpty DEF ClearMemo
<1>4. UpToDate'
  <2>1. Content' = Content /\ (FeedStale => FeedStale')
    BY <1>t DEF ClearMemo, Content, FeedStale, TypeOK
  <2>2. FeedRight => FeedRight'
    BY <2>1 DEF ClearMemo, threads, FeedRight
  <2>3. MemoRight'
    BY DEF ClearMemo, MemoRight
  <2> QED
    BY <2>1, <2>2, <2>3 DEF ClearMemo, threads, IInv, UpToDate
<1> QED
  BY <1>1, <1>2, <1>3, <1>4 DEF IInv

(* The process starts again and has loaded nothing (pricing.py:123-124). *)
LEMMA RestartOK == ASSUME IInv, Restart PROVE IInv'
<1>t. TypeOK /\ <<>> \in Book
  BY Books DEF IInv, TypeOK
<1>1. TypeOK'
  <2>1. raw' \in [Refresher -> Raw \cup {<<>>}]
    BY <1>t DEF Restart, TypeOK
  <2>2. rpc' \in [Refresher -> {"idle", "writing", "resetting", "clearing"}]
    BY <1>t DEF Restart, TypeOK
  <2> QED
    BY <1>t, <2>1, <2>2 DEF Restart, TypeOK
<1>2. InHand'
  BY <1>t DEF Restart, IInv, InHand, TypeOK
<1>3. MemoBound'
  BY MemoEmpty DEF Restart
<1>4. UpToDate'
  BY DEF Restart, UpToDate, FeedRight, MemoRight
<1> QED
  BY <1>1, <1>2, <1>3, <1>4 DEF IInv

(* Every step keeps the invariant (pricing.py:153-216). *)
LEMMA StepOK == IInv /\ [Next]_vars => IInv'
<1> SUFFICES ASSUME IInv, [Next]_vars PROVE IInv'
  OBVIOUS
<1>1. ASSUME NEW t \in Thread, NEW m \in Model, Ask(t, m) PROVE IInv'
  BY <1>1, AskOK
<1>2. ASSUME NEW t \in Thread, ThreadStep(t) PROVE IInv'
  BY <1>2, ReadOK, StoreOK, ReturnOK, MemoiseOK DEF ThreadStep
<1>3. ASSUME NEW r \in Refresher, NEW new \in Raw, OpenFile(r, new) PROVE IInv'
  BY <1>3, OpenOK
<1>4. ASSUME NEW r \in Refresher, RefreshStep(r) PROVE IInv'
  BY <1>4, CloseOK, AbandonOK, ResetOK, ClearOK DEF RefreshStep
<1>5. CASE Restart
  BY <1>5, RestartOK
<1>6. CASE UNCHANGED vars
  <2>1. TypeOK' /\ InHand' /\ MemoBound'
    BY <1>6, MemoKept DEF IInv, TypeOK, InHand, vars, refreshers, threads
  <2>2. UpToDate'
    BY <1>6 DEF IInv, vars, refreshers, threads, UpToDate, FeedStale, FeedRight, MemoRight,
                Refreshing, Content
  <2> QED
    BY <2>1, <2>2 DEF IInv
<1> QED
  BY <1>1, <1>2, <1>3, <1>4, <1>5, <1>6 DEF Next

------------------------------------------------------------------------------

(* The invariant holds in every state: lookups, refreshes of this process  *)
(* and of others, writes that overlap or are cut off, and restarts         *)
(* (pricing.py:153-216).                                                   *)
THEOREM PricesInductive == Spec => []IInv
<1> QED
  BY InitOK, StepOK, PTL DEF Spec

(* The values the process and the file keep are the ones they can keep. *)
THEOREM PriceTypes == Spec => []TypeOK
<1>1. IInv => TypeOK
  BY DEF IInv
<1> QED
  BY <1>1, PricesInductive, PTL

(* What the process has loaded and memoised is what the file says, and a   *)
(* lookup finds the feed it has just loaded, unless the process may be     *)
(* behind (pricing.py:153-183).                                            *)
THEOREM CachedOnDisk == Spec => []CachedIsOnDisk
<1>1. FeedStale => Refreshing
  BY DEF FeedStale, Refreshing
<1>2. IInv => CachedIsOnDisk
  BY <1>1 DEF IInv, UpToDate, FeedRight, MemoRight, CachedIsOnDisk
<1> QED
  BY <1>2, PricesInductive, PTL

(* The memo never has more answers than it may, whatever threads look up   *)
(* at the same time (pricing.py:197).                                      *)
THEOREM MemoWithinSize == Spec => []MemoBound
<1>1. IInv => MemoBound
  BY DEF IInv
<1> QED
  BY <1>1, PricesInductive, PTL

(* An answer in the memo is what every later lookup of the process gets,   *)
(* until it is forgotten: a slower thread with another book in hand never  *)
(* replaces it (pricing.py:197).                                           *)
THEOREM MemoNeverReplaced ==
  Spec => [][\A m \in Model : memo[m] # Unset => memo'[m] \in {memo[m], Unset}]_vars
<1> DEFINE Kept == \A m \in Model : memo[m] # Unset => memo'[m] \in {memo[m], Unset}
<1>1. ASSUME IInv, Next PROVE Kept
  <2>1. ASSUME NEW t \in Thread, NEW n \in Model, Ask(t, n) PROVE Kept
    BY <2>1 DEF Ask
  <2>2. ASSUME NEW t \in Thread, ThreadStep(t) PROVE Kept
    <3>1. ASSUME Memoise(t) PROVE Kept
      BY <3>1, <1>1 DEF Memoise, IInv, TypeOK
    <3> QED
      BY <2>2, <3>1 DEF ThreadStep, ReadFile, StoreFeed, ReturnFeed
  <2>3. ASSUME NEW r \in Refresher, NEW new \in Raw, OpenFile(r, new) PROVE Kept
    BY <2>3 DEF OpenFile
  <2>4. ASSUME NEW r \in Refresher, RefreshStep(r) PROVE Kept
    BY <2>4 DEF RefreshStep, CloseFile, Abandon, ResetFeed, ClearMemo
  <2>5. CASE Restart
    BY <2>5 DEF Restart
  <2> QED
    BY <1>1, <2>1, <2>2, <2>3, <2>4, <2>5 DEF Next
<1>2. IInv /\ [Next]_vars => [Kept]_vars
  BY <1>1
<1> QED
  BY <1>2, PricesInductive, PTL DEF Spec

------------------------------------------------------------------------------
(* What Parse makes of a feed. *)

Says(book, k, p) == \E i \in DOMAIN book : book[i] = [key |-> k, price |-> p]

(* An assignment says the new price of its key and changes no other        *)
(* (pricing.py:145).                                                       *)
LEMMA PutSays ==
  ASSUME NEW b \in Seq(Entry), NEW k \in Key, NEW p \in Price
  PROVE  /\ Put(b, k, p) \in Seq(Entry) /\ Says(Put(b, k, p), k, p)
         /\ \A l \in Key : Has(Put(b, k, p), l) <=> l = k \/ Has(b, l)
         /\ \A l \in Key, q \in Price : l # k /\ Says(b, l, q) => Says(Put(b, k, p), l, q)
<1> DEFINE c == Put(b, k, p)
           new == [key |-> k, price |-> p]
<1>0. new \in Entry /\ new.key = k
  BY DEF Entry
<1>1. CASE Has(b, k)
  <2>1. DOMAIN c = DOMAIN b /\ Len(b) \in Nat /\ DOMAIN b = 1..Len(b)
        /\ \A i \in DOMAIN b : c[i] = IF b[i].key = k THEN [b[i] EXCEPT !.price = p] ELSE b[i]
    BY <1>1 DEF Put
  <2>2. \A i \in DOMAIN b : b[i] \in Entry
    OBVIOUS
  <2>3. \A i \in DOMAIN b : c[i] = IF b[i].key = k THEN new ELSE b[i]
    BY <2>1, <2>2 DEF Entry
  <2>4. c \in Seq(Entry)
    <3>1. c = [i \in 1..Len(b) |-> c[i]]
      BY <1>1, <2>1 DEF Put
    <3>2. \A i \in 1..Len(b) : c[i] \in Entry
      BY <1>0, <2>1, <2>2, <2>3
    <3> HIDE DEF c
    <3> QED
      BY <2>1, <3>1, <3>2
  <2> HIDE DEF c, new
  <2>5. Says(c, k, p)
    BY <1>1, <2>1, <2>3 DEF Says, Has, new
  <2>6. \A l \in Key : Has(c, l) <=> l = k \/ Has(b, l)
    BY <1>0, <1>1, <2>1, <2>3 DEF Has
  <2>7. ASSUME NEW l \in Key, NEW q \in Price, l # k, Says(b, l, q) PROVE Says(c, l, q)
    <3>1. PICK i \in DOMAIN b : b[i] = [key |-> l, price |-> q]
      BY <2>7 DEF Says
    <3>2. c[i] = b[i]
      BY <2>3, <2>7, <3>1
    <3> QED
      BY <2>1, <3>1, <3>2 DEF Says
  <2> QED
    BY <2>4, <2>5, <2>6, <2>7 DEF c
<1>2. CASE ~Has(b, k)
  <2>1. c = Append(b, new)
    BY <1>2 DEF Put
  <2>2. /\ c \in Seq(Entry) /\ Len(b) \in Nat /\ DOMAIN b = 1..Len(b)
        /\ DOMAIN c = 1..(Len(b) + 1) /\ c[Len(b) + 1] = new
        /\ \A i \in 1..Len(b) : c[i] = b[i]
    <3> HIDE DEF new, c
    <3> QED
      BY <1>0, <2>1
  <2> HIDE DEF c, new
  <2>3. Says(c, k, p)
    BY <2>2 DEF Says, new
  <2>4. \A i \in DOMAIN c : i \in DOMAIN b \/ i = Len(b) + 1
    BY <2>2
  <2>5. \A i \in DOMAIN b : i \in DOMAIN c /\ c[i] = b[i]
    BY <2>2
  <2>6. \A l \in Key : Has(c, l) <=> l = k \/ Has(b, l)
    <3>1. Len(b) + 1 \in DOMAIN c
      BY <2>2
    <3> QED
      BY <1>0, <2>2, <2>4, <2>5, <3>1 DEF Has
  <2>7. \A l \in Key, q \in Price : Says(b, l, q) => Says(c, l, q)
    BY <2>5 DEF Says
  <2> QED
    BY <2>2, <2>3, <2>6, <2>7 DEF c
<1> QED
  BY <1>1, <1>2

(* setdefault says the price of a new key and changes no other             *)
(* (pricing.py:149).                                                       *)
LEMMA DefaultSays ==
  ASSUME NEW b \in Seq(Entry), NEW k \in Key, NEW p \in Price
  PROVE  /\ SetDefault(b, k, p) \in Seq(Entry)
         /\ ~Has(b, k) => Says(SetDefault(b, k, p), k, p)
         /\ \A l \in Key : Has(SetDefault(b, k, p), l) <=> l = k \/ Has(b, l)
         /\ \A l \in Key, q \in Price : Says(b, l, q) => Says(SetDefault(b, k, p), l, q)
<1>1. CASE Has(b, k)
  BY <1>1 DEF SetDefault
<1>2. CASE ~Has(b, k)
  <2>1. SetDefault(b, k, p) = Put(b, k, p)
    BY <1>2 DEF SetDefault, Put
  <2>2. \A l \in Key, q \in Price : Says(b, l, q) => l # k
    <3>1. \A l, q : [key |-> l, price |-> q].key = l
      OBVIOUS
    <3> QED
      BY <1>2, <3>1 DEF Says, Has
  <2> QED
    BY <2>1, <2>2, PutSays
<1> QED
  BY <1>1, <1>2


(* The book after each of n entries of a feed. *)
Steps(new, n, b) == b[0] = <<>> /\ \A i \in 1..n : b[i] = WithEntry(b[i - 1], new[i])

(* The loop over a feed goes from book to book (pricing.py:135-150).       *)
LEMMA ParseSteps ==
  ASSUME NEW new \in Seq(RawEntry)
  PROVE  \E b : Steps(new, Len(new), b) /\ Parse(new) = b[Len(new)]
<1> DEFINE n == Len(new)
           V == Seq(Entry)
           op == [i \in 1..n |-> [v \in V |-> WithEntry(v, new[i])]]
           Is(g) == g = [s \in SUBSET (1..n) |->
                           IF s = {} THEN <<>> ELSE WithEntry(g[s \ {Max(s)}], new[Max(s)])]
<1>1. n \in Nat /\ DOMAIN new = 1..n /\ \A i \in 1..n : new[i] \in RawEntry
  OBVIOUS
<1>2. <<>> \in V
  OBVIOUS
<1>3. op \in [1..n -> [V -> V]]
  <2> SUFFICES ASSUME NEW i \in 1..n, NEW v \in V PROVE WithEntry(v, new[i]) \in V
    OBVIOUS
  <2>1. new[i].key \in Key /\ new[i].bare \in Key /\ new[i].price \in Price
    BY <1>1 DEF RawEntry
  <2> QED
    BY <2>1, PutSays, DefaultSays DEF WithEntry
<1>4. PICK g \in [SUBSET (1..n) -> V] : Folds(n, <<>>, op, g)
  <2> HIDE DEF n, V, op
  <2> QED
    BY <1>1, <1>2, <1>3, FoldsExist
<1>5. ASSUME NEW s \in SUBSET (1..n), s # {}
      PROVE  Max(s) \in 1..n /\ g[s \ {Max(s)}] \in V
  <2>1. s \in SUBSET Int
    BY <1>1
  <2>2. IsFiniteSet(s)
    <3>1. IsFiniteSet(1..n)
      BY <1>1, FS_Interval
    <3> HIDE DEF n
    <3> QED
      BY <3>1, FS_Subset
  <2>3. Max(s) \in s
    BY <1>5, <2>1, <2>2, Extremes
  <2> HIDE DEF n, V
  <2> QED
    BY <2>3
<1>6. Is(g)
  <2>1. ASSUME NEW s \in SUBSET (1..n)
        PROVE  g[s] = IF s = {} THEN <<>> ELSE WithEntry(g[s \ {Max(s)}], new[Max(s)])
    <3>1. CASE s = {}
      BY <1>4, <3>1 DEF Folds
    <3>2. CASE s # {}
      <4>1. g[s] = op[Max(s)][g[s \ {Max(s)}]]
        BY <1>4, <3>2 DEF Folds
      <4>2. op[Max(s)][g[s \ {Max(s)}]] = WithEntry(g[s \ {Max(s)}], new[Max(s)])
        <5> HIDE DEF n, V
        <5> QED
          BY <1>5, <3>2
      <4> HIDE DEF op
      <4> QED
        BY <3>2, <4>1, <4>2
    <3> QED
      BY <3>1, <3>2
  <2> HIDE DEF n, V
  <2> QED
    BY <2>1
<1> DEFINE iter == CHOOSE h : Is(h)
<1>7. Is(iter)
  <2> HIDE DEF Is
  <2> QED
    BY <1>6
<1>8. Parse(new) = iter[1..n]
  BY <1>1 DEF Parse, FoldLeft, MapThenFoldSet
<1> DEFINE b == [i \in 0..n |-> iter[1..i]]
<1>9. b[0] = <<>>
  <2>1. 1..0 = {} /\ 0 \in 0..n
    BY <1>1
  <2> HIDE DEF n
  <2> QED
    BY <1>7, <2>1
<1>10. ASSUME NEW i \in 1..n PROVE b[i] = WithEntry(b[i - 1], new[i])
  <2>1. /\ i \in Nat \ {0} /\ 1..i \in SUBSET (1..n) /\ i - 1 \in 0..n /\ i \in 0..n
    BY <1>1
  <2>2. iter[1..i] = WithEntry(iter[(1..i) \ {Max(1..i)}], new[Max(1..i)])
    <3>1. 1..i # {}
      BY <2>1
    <3> HIDE DEF n, iter
    <3> QED
      BY <1>7, <2>1, <3>1
  <2>3. iter[1..i] = WithEntry(iter[1..(i - 1)], new[i])
    <3> HIDE DEF n, iter
    <3> QED
      BY <2>1, <2>2, UpTo
  <2> HIDE DEF n, iter
  <2> QED
    BY <2>1, <2>3
<1>11. b[n] = iter[1..n]
  BY <1>1
<1>12. Steps(new, n, b) /\ Parse(new) = b[n]
  <2> HIDE DEF n, iter, b
  <2> QED
    BY <1>8, <1>9, <1>10, <1>11 DEF Steps
<1> HIDE DEF b
<1> QED
  BY <1>12

(* The entry of a feed whose price the book has for a name, so far: the    *)
(* last of the name's own, else the first that has the name as its bare.   *)
Usable(new, n) == {i \in 1..n : new[i].usable}

Source(new, n, k, j) ==
  /\ j \in Usable(new, n)
  /\ \/ new[j].key = k /\ \A l \in Usable(new, n) : new[l].key = k => l <= j
     \/ new[j].bare = k /\ \A l \in Usable(new, n) :
                             new[l].key # k /\ (new[l].bare = k => j <= l)

Written(new, n, book) ==
  /\ book \in Seq(Entry)
  /\ \A k \in Key : \A j : Source(new, n, k, j) => Says(book, k, new[j].price)
  /\ \A k \in Key : Has(book, k) <=>
       \E j \in Usable(new, n) : new[j].key = k \/ new[j].bare = k

(* One more entry is written under its name and, if that is free, under    *)
(* its bare name (pricing.py:137-149).                                     *)
LEMMA EntryWritten ==
  ASSUME NEW new \in Seq(RawEntry), NEW n \in Nat, n + 1 \in 1..Len(new),
         NEW book, Written(new, n, book)
  PROVE  Written(new, n + 1, WithEntry(book, new[n + 1]))
<1> DEFINE e == new[n + 1]
           c == WithEntry(book, e)
           U == Usable(new, n)
           W == Usable(new, n + 1)
<1>1. /\ e \in RawEntry /\ e.key \in Key /\ e.bare \in Key /\ e.price \in Price
      /\ \A i \in W : new[i].price \in Price
  <2>1. \A i \in 1..Len(new) : new[i] \in RawEntry
    OBVIOUS
  <2>2. \A i \in W : i \in 1..Len(new)
    BY DEF Usable
  <2> HIDE DEF W
  <2> QED
    BY <2>1, <2>2 DEF RawEntry
<1>2. /\ \A i \in U : i \in W /\ i <= n
      /\ \A i \in W : i \in U \/ i = n + 1
      /\ n + 1 \in W <=> e.usable
      /\ U \subseteq Int /\ W \subseteq Int
  BY DEF Usable
<1>3. CASE ~e.usable
  <2>1. c = book
    BY <1>3 DEF WithEntry
  <2>2. W = U
    BY <1>2, <1>3
  <2> HIDE DEF U, W, c
  <2> QED
    BY <2>1, <2>2 DEF Written, Source, U, W, c
<1>4. CASE e.usable
  <2> DEFINE d == Put(book, e.key, e.price)
  <2>1. c = SetDefault(d, e.bare, e.price)
    BY <1>4 DEF WithEntry
  <2>2. /\ d \in Seq(Entry) /\ Says(d, e.key, e.price)
        /\ \A l \in Key : Has(d, l) <=> l = e.key \/ Has(book, l)
        /\ \A l \in Key, q \in Price : l # e.key /\ Says(book, l, q) => Says(d, l, q)
    BY <1>1, PutSays DEF Written
  <2> HIDE DEF d
  <2>3. /\ c \in Seq(Entry)
        /\ ~Has(d, e.bare) => Says(c, e.bare, e.price)
        /\ \A l \in Key : Has(c, l) <=> l = e.bare \/ Has(d, l)
        /\ \A l \in Key, q \in Price : Says(d, l, q) => Says(c, l, q)
    <3> HIDE DEF c, e, U, W
    <3> QED
      BY <1>1, <2>1, <2>2, DefaultSays
  <2> HIDE DEF c, U, W
  <2>4. ASSUME NEW k \in Key, NEW j, Source(new, n + 1, k, j) PROVE Says(c, k, new[j].price)
    <3>1. j \in W /\ j \in Int /\ new[j].price \in Price /\ n + 1 \in W
      BY <1>1, <1>2, <1>4, <2>4 DEF Source, W
    <3>2. CASE new[j].key = k /\ \A l \in W : new[l].key = k => l <= j
      <4>1. CASE e.key = k
        <5>1. j = n + 1
          BY <1>2, <3>1, <3>2, <4>1
        <5> QED
          BY <1>1, <2>2, <2>3, <4>1, <5>1
      <4>2. CASE e.key # k
        <5>1. j \in U
          BY <1>2, <3>1, <3>2, <4>2
        <5>2. Source(new, n, k, j)
          BY <1>2, <3>2, <5>1 DEF Source, U
        <5>3. Says(book, k, new[j].price)
          BY <5>2 DEF Written
        <5> QED
          BY <2>2, <2>3, <3>1, <4>2, <5>3
      <4> QED
        BY <4>1, <4>2
    <3>3. CASE new[j].bare = k /\ \A l \in W : new[l].key # k /\ (new[l].bare = k => j <= l)
      <4>0. e.key # k
        BY <3>1, <3>3
      <4>1. CASE j = n + 1
        <5>1. ASSUME NEW l \in U PROVE new[l].key # k /\ new[l].bare # k
          <6>1. l \in W /\ l \in Int /\ ~(n + 1 <= l)
            BY <1>2
          <6> QED
            BY <3>3, <4>1, <6>1
        <5>2. ~Has(book, k)
          BY <5>1 DEF Written, U
        <5> QED
          BY <2>2, <2>3, <3>3, <4>0, <4>1, <5>2
      <4>2. CASE j \in U
        <5>1. Source(new, n, k, j)
          BY <1>2, <3>3, <4>2 DEF Source, U
        <5>2. Says(book, k, new[j].price)
          BY <5>1 DEF Written
        <5> QED
          BY <2>2, <2>3, <3>1, <4>0, <5>2
      <4> QED
        BY <1>2, <3>1, <4>1, <4>2
    <3> QED
      BY <2>4, <3>2, <3>3 DEF Source, W
  <2>5. ASSUME NEW k \in Key
        PROVE  Has(c, k) <=> \E j \in W : new[j].key = k \/ new[j].bare = k
    <3>1. Has(c, k) <=> k = e.bare \/ k = e.key \/ Has(book, k)
      BY <1>1, <2>2, <2>3
    <3>2. Has(book, k) <=> \E j \in U : new[j].key = k \/ new[j].bare = k
      BY DEF Written, U
    <3> QED
      BY <1>2, <1>4, <3>1, <3>2
  <2> QED
    BY <2>3, <2>4, <2>5 DEF Written, W, c
<1> QED
  BY <1>3, <1>4


(* A parsed feed says what ParsedRight asks for (pricing.py:135-150).      *)
LEMMA FeedParsed ==
  ASSUME NEW new \in Seq(RawEntry)
  PROVE  Parse(new) \in Seq(Entry) /\ ParsedRight(new, Parse(new))
<1> DEFINE n == Len(new)
           book == Parse(new)
<1>1. PICK b : Steps(new, n, b) /\ book = b[n]
  BY ParseSteps
<1>2. n \in Nat /\ DOMAIN new = 1..n
  OBVIOUS
<1> HIDE DEF book
<1> DEFINE Good == {i \in Nat : i <= n => Written(new, i, b[i])}
<1>3. 0 \in Good
  <2>1. Usable(new, 0) = {} /\ b[0] = <<>> /\ <<>> \in Seq(Entry) /\ \A k : ~Has(<<>>, k)
    BY <1>1 DEF Usable, Steps, Has
  <2>2. Written(new, 0, b[0])
    BY <2>1 DEF Written, Source
  <2> QED
    BY <2>2
<1>4. ASSUME NEW i \in Nat, i \in Good PROVE i + 1 \in Good
  <2> SUFFICES ASSUME i + 1 <= n PROVE Written(new, i + 1, b[i + 1])
    OBVIOUS
  <2>1. i + 1 \in 1..n /\ i + 1 - 1 = i /\ i <= n
    BY <1>2
  <2>2. b[i + 1] = WithEntry(b[i], new[i + 1])
    BY <1>1, <2>1 DEF Steps
  <2>3. Written(new, i, b[i])
    BY <1>4, <2>1
  <2> QED
    BY <2>1, <2>2, <2>3, EntryWritten
<1>5. Written(new, n, book)
  <2>1. n \in Good
    <3> HIDE DEF Good, n
    <3> QED
      BY <1>2, <1>3, <1>4, NatInduction0
  <2> QED
    BY <1>1, <1>2, <2>1
<1> DEFINE U == Usable(new, n)
           Own(k) == {i \in U : new[i].key = k}
           Bare(k) == {i \in U : new[i].bare = k}
<1>6. U = {i \in DOMAIN new : new[i].usable}
  BY <1>2 DEF Usable
<1>7. ASSUME NEW T \in SUBSET U, T # {}
      PROVE  /\ Max(T) \in T /\ \A i \in T : i <= Max(T)
             /\ Min(T) \in T /\ \A i \in T : Min(T) <= i
  <2>1. T \subseteq 1..n /\ T \in SUBSET Int
    BY DEF Usable
  <2>2. IsFiniteSet(1..n)
    BY <1>2, FS_Interval
  <2>3. IsFiniteSet(T)
    <3> HIDE DEF U, n
    <3> QED
      BY <2>1, <2>2, FS_Subset
  <2> HIDE DEF U, n
  <2> QED
    BY <1>7, <2>1, <2>3, Extremes
<1> DEFINE In == {book[j] : j \in DOMAIN book}
<1>8. \A k \in Key : \A i : Source(new, n, k, i) => [key |-> k, price |-> new[i].price] \in In
  <2> HIDE DEF n, U
  <2> QED
    BY <1>5 DEF Written, Says
<1>9. ASSUME NEW k \in Key, Own(k) # {}
      PROVE  [key |-> k, price |-> new[Max(Own(k))].price] \in In
  <2>1. Max(Own(k)) \in Own(k) /\ \A i \in Own(k) : i <= Max(Own(k))
    <3> HIDE DEF U
    <3> QED
      BY <1>7, <1>9
  <2>2. Source(new, n, k, Max(Own(k)))
    <3> HIDE DEF n
    <3> QED
      BY <2>1 DEF Source
  <2> HIDE DEF n, In, Own
  <2> QED
    BY <1>8, <2>2
<1>10. ASSUME NEW k \in Key, Own(k) = {}, Bare(k) # {}
       PROVE  [key |-> k, price |-> new[Min(Bare(k))].price] \in In
  <2>1. Min(Bare(k)) \in Bare(k) /\ \A i \in Bare(k) : Min(Bare(k)) <= i
    <3> HIDE DEF U
    <3> QED
      BY <1>7, <1>10
  <2>2. Source(new, n, k, Min(Bare(k)))
    <3> HIDE DEF n
    <3> QED
      BY <1>10, <2>1 DEF Source
  <2> HIDE DEF n, In, Bare
  <2> QED
    BY <1>8, <2>2
<1>11. \A k \in Key : Has(book, k) <=> Own(k) \cup Bare(k) # {}
  <2> HIDE DEF n
  <2> QED
    BY <1>5 DEF Written
<1> HIDE DEF n, U
<1>12. ParsedRight(new, book)
  BY <1>6, <1>9, <1>10, <1>11 DEF ParsedRight
<1> QED
  BY <1>5, <1>12 DEF Written, book

(* Every book is a sequence of entries. *)
LEMMA BookTyped == ASSUME NEW book \in Book PROVE book \in Seq(Entry)
<1>1. <<>> \in Seq(Entry)
  OBVIOUS
<1> QED
  BY <1>1, FeedParsed, RawFeeds DEF Book


------------------------------------------------------------------------------
(* What Lookup finds in a book. *)

(* One turn of the loop over a book (pricing.py:211-213).                  *)
Longer(best, e, m) ==
  IF e.key \in Occurs[m] /\ (best = <<>> \/ Length[e.key] > Length[best[1].key])
  THEN <<e>> ELSE best

(* The best entry after each of n turns. *)
Turns(book, m, n, b) == b[0] = <<>> /\ \A i \in 1..n : b[i] = Longer(b[i - 1], book[i], m)

(* The loop over a book goes from best to best (pricing.py:210-215).       *)
LEMMA LongestTurns ==
  ASSUME NEW book \in Seq(Entry), NEW m
  PROVE  \E b : Turns(book, m, Len(book), b) /\ LongestKey(book, m) = b[Len(book)]
<1> DEFINE n == Len(book)
           V == {<<>>} \cup {<<e>> : e \in Entry}
           op == [i \in 1..n |-> [v \in V |-> Longer(v, book[i], m)]]
           Is(g) == g = [s \in SUBSET (1..n) |->
                           IF s = {} THEN <<>> ELSE Longer(g[s \ {Max(s)}], book[Max(s)], m)]
<1>1. n \in Nat /\ DOMAIN book = 1..n /\ \A i \in 1..n : book[i] \in Entry
  OBVIOUS
<1>2. <<>> \in V
  OBVIOUS
<1>3. op \in [1..n -> [V -> V]]
  <2> SUFFICES ASSUME NEW i \in 1..n, NEW v \in V PROVE Longer(v, book[i], m) \in V
    OBVIOUS
  <2>1. <<book[i]>> \in V
    BY <1>1
  <2> HIDE DEF V
  <2> QED
    BY <2>1 DEF Longer
<1>4. PICK g \in [SUBSET (1..n) -> V] : Folds(n, <<>>, op, g)
  <2> HIDE DEF n, V, op
  <2> QED
    BY <1>1, <1>2, <1>3, FoldsExist
<1>5. ASSUME NEW s \in SUBSET (1..n), s # {}
      PROVE  Max(s) \in 1..n /\ g[s \ {Max(s)}] \in V
  <2>1. s \in SUBSET Int
    BY <1>1
  <2>2. IsFiniteSet(s)
    <3>1. IsFiniteSet(1..n)
      BY <1>1, FS_Interval
    <3> HIDE DEF n
    <3> QED
      BY <3>1, FS_Subset
  <2>3. Max(s) \in s
    BY <1>5, <2>1, <2>2, Extremes
  <2> HIDE DEF n, V
  <2> QED
    BY <2>3
<1>6. Is(g)
  <2>1. ASSUME NEW s \in SUBSET (1..n)
        PROVE  g[s] = IF s = {} THEN <<>> ELSE Longer(g[s \ {Max(s)}], book[Max(s)], m)
    <3>1. CASE s = {}
      BY <1>4, <3>1 DEF Folds
    <3>2. CASE s # {}
      <4>1. g[s] = op[Max(s)][g[s \ {Max(s)}]]
        BY <1>4, <3>2 DEF Folds
      <4>2. op[Max(s)][g[s \ {Max(s)}]] = Longer(g[s \ {Max(s)}], book[Max(s)], m)
        <5> HIDE DEF n, V
        <5> QED
          BY <1>5, <3>2
      <4> HIDE DEF op
      <4> QED
        BY <3>2, <4>1, <4>2
    <3> QED
      BY <3>1, <3>2
  <2> HIDE DEF n, V
  <2> QED
    BY <2>1
<1> DEFINE iter == CHOOSE h : Is(h)
<1>7. Is(iter)
  <2> HIDE DEF Is
  <2> QED
    BY <1>6
<1>8. LongestKey(book, m) = iter[1..n]
  BY <1>1 DEF LongestKey, Longer, FoldLeft, MapThenFoldSet
<1> DEFINE b == [i \in 0..n |-> iter[1..i]]
<1>9. b[0] = <<>>
  <2>1. 1..0 = {} /\ 0 \in 0..n
    BY <1>1
  <2> HIDE DEF n
  <2> QED
    BY <1>7, <2>1
<1>10. ASSUME NEW i \in 1..n PROVE b[i] = Longer(b[i - 1], book[i], m)
  <2>1. /\ i \in Nat \ {0} /\ 1..i \in SUBSET (1..n) /\ i - 1 \in 0..n /\ i \in 0..n
    BY <1>1
  <2>2. iter[1..i] = Longer(iter[(1..i) \ {Max(1..i)}], book[Max(1..i)], m)
    <3>1. 1..i # {}
      BY <2>1
    <3> HIDE DEF n, iter
    <3> QED
      BY <1>7, <2>1, <3>1
  <2>3. iter[1..i] = Longer(iter[1..(i - 1)], book[i], m)
    <3> HIDE DEF n, iter
    <3> QED
      BY <2>1, <2>2, UpTo
  <2> HIDE DEF n, iter
  <2> QED
    BY <2>1, <2>3
<1>11. b[n] = iter[1..n]
  BY <1>1
<1>12. Turns(book, m, n, b) /\ LongestKey(book, m) = b[n]
  <2> HIDE DEF n, iter, b
  <2> QED
    BY <1>8, <1>9, <1>10, <1>11 DEF Turns
<1> HIDE DEF b
<1> QED
  BY <1>12

(* The entries of a book that answer for a name, and the longest of them.  *)
Owns(book, m)  == {e \in {book[i] : i \in DOMAIN book} : e.key = m}
Parts(book, m) == {e \in {book[i] : i \in DOMAIN book} : e.key \in Occurs[m]}
Bests(book, m) ==
  {e \in Parts(book, m) : \A f \in Parts(book, m) : Length[f.key] <= Length[e.key]}

(* A way of looking up finds one of the entries that it is for, if any is. *)
Finds(found, E) == (E = {} /\ found = <<>>) \/ \E e \in E : found = <<e>>

(* The test of the exact name (pricing.py:203-206).                        *)
LEMMA ExactFinds ==
  ASSUME NEW book \in Seq(Entry), NEW m
  PROVE  Finds(Exact(book, m), Owns(book, m))
<1>1. CASE Has(book, m)
  <2> DEFINE i == CHOOSE j \in DOMAIN book : book[j].key = m
  <2>1. i \in DOMAIN book /\ book[i].key = m
    BY <1>1 DEF Has
  <2>2. Exact(book, m) = <<book[i]>>
    BY <1>1 DEF Exact
  <2> HIDE DEF i
  <2>3. book[i] \in Owns(book, m)
    BY <2>1 DEF Owns
  <2> QED
    BY <2>2, <2>3 DEF Finds
<1>2. CASE ~Has(book, m)
  BY <1>2 DEF Finds, Exact, Owns, Has
<1> QED
  BY <1>1, <1>2

(* The loop finds a longest of the keys that the name contains             *)
(* (pricing.py:207-215).                                                   *)
LEMMA LongestFinds ==
  ASSUME NEW book \in Seq(Entry), NEW m \in Model
  PROVE  Finds(LongestKey(book, m), Bests(book, m))
<1> DEFINE n == Len(book)
           In(i) == {book[j] : j \in 1..i}
           Part(i) == {e \in In(i) : e.key \in Occurs[m]}
           Best(i) == {e \in Part(i) : \A f \in Part(i) : Length[f.key] <= Length[e.key]}
<1>1. PICK b : Turns(book, m, n, b) /\ LongestKey(book, m) = b[n]
  BY LongestTurns
<1>2. n \in Nat /\ DOMAIN book = 1..n
      /\ \A i \in 1..n : book[i] \in Entry /\ Length[book[i].key] \in Nat
  <2>1. \A i \in 1..n : book[i] \in Entry
    OBVIOUS
  <2>2. \A e \in Entry : Length[e.key] \in Nat
    BY Names DEF Entry
  <2> QED
    BY <2>1, <2>2
<1> HIDE DEF n
<1> DEFINE So(i) == (Part(i) = {} /\ b[i] = <<>>) \/ \E e \in Best(i) : b[i] = <<e>>
           Good == {i \in Nat : i <= n => So(i)}
<1>3. 0 \in Good
  BY <1>1 DEF Turns
<1>4. ASSUME NEW i \in Nat, i \in Good PROVE i + 1 \in Good
  <2> SUFFICES ASSUME i + 1 <= n PROVE So(i + 1)
    OBVIOUS
  <2> DEFINE new == book[i + 1]
  <2>1. i + 1 \in 1..n /\ i + 1 - 1 = i /\ i <= n
    BY <1>2
  <2>2. b[i + 1] = Longer(b[i], new, m)
    BY <1>1, <2>1 DEF Turns
  <2>3. So(i)
    BY <1>4, <2>1
  <2>4. In(i + 1) = In(i) \cup {new}
    <3>1. 1..(i + 1) = (1..i) \cup {i + 1}
      OBVIOUS
    <3> QED
      BY <3>1
  <2>5. \A e \in Part(i + 1) : Length[e.key] \in Nat
    <3>1. 1..(i + 1) \subseteq 1..n
      BY <1>2, <2>1
    <3> QED
      BY <1>2, <3>1
  <2> HIDE DEF In, new
  <2>6. Part(i + 1) = IF new.key \in Occurs[m] THEN Part(i) \cup {new} ELSE Part(i)
    BY <2>4
  <2> HIDE DEF Part
  <2>7. CASE new.key \notin Occurs[m]
    BY <2>2, <2>3, <2>6, <2>7 DEF Longer
  <2>8. CASE new.key \in Occurs[m] /\ Part(i) = {}
    <3>1. Part(i + 1) = {new} /\ b[i] = <<>>
      BY <2>3, <2>6, <2>8
    <3>2. b[i + 1] = <<new>>
      BY <2>2, <2>8, <3>1 DEF Longer
    <3>3. new \in Best(i + 1)
      BY <2>5, <3>1
    <3> QED
      BY <3>2, <3>3
  <2>9. CASE new.key \in Occurs[m] /\ Part(i) # {}
    <3>1. PICK e \in Best(i) : b[i] = <<e>>
      BY <2>3, <2>9
    <3>2. b[i] # <<>> /\ b[i][1] = e
      BY <3>1
    <3>3. b[i + 1] = IF Length[new.key] > Length[e.key] THEN <<new>> ELSE <<e>>
      BY <2>2, <2>9, <3>1, <3>2 DEF Longer
    <3>4. Part(i + 1) = Part(i) \cup {new}
      BY <2>6, <2>9
    <3>5. CASE Length[new.key] > Length[e.key]
      <4>1. new \in Best(i + 1)
        BY <2>5, <3>1, <3>4, <3>5
      <4> QED
        BY <3>3, <3>5, <4>1
    <3>6. CASE ~(Length[new.key] > Length[e.key])
      <4>1. e \in Best(i + 1)
        BY <2>5, <3>1, <3>4, <3>6
      <4> QED
        BY <3>3, <3>6, <4>1
    <3> QED
      BY <3>5, <3>6
  <2> QED
    BY <2>7, <2>8, <2>9
<1>5. So(n)
  <2>1. n \in Good
    <3> HIDE DEF Good
    <3> QED
      BY <1>2, <1>3, <1>4, NatInduction0
  <2> QED
    BY <1>2, <2>1
<1>6. Part(n) = Parts(book, m)
  BY <1>2 DEF Parts
<1> HIDE DEF Part
<1>7. Best(n) = Bests(book, m)
  BY <1>6 DEF Bests
<1>8. Part(n) = {} => Bests(book, m) = {}
  BY <1>6 DEF Bests
<1> HIDE DEF Best
<1> QED
  BY <1>1, <1>5, <1>7, <1>8 DEF Finds

(* One way after another: the first that finds an entry answers.           *)
LEMMA OneAfterAnother ==
  ASSUME NEW s \in Seq(Entry), NEW t \in Seq(Entry)
  PROVE  /\ s \o t \in Seq(Entry)
         /\ s = <<>> => s \o t = t
         /\ s # <<>> => s \o t # <<>> /\ (s \o t)[1] = s[1]
<1>1. Len(s) \in Nat /\ Len(t) \in Nat /\ Len(s \o t) = Len(s) + Len(t)
  OBVIOUS
<1>2. s # <<>> => 1 \in 1..Len(s)
  BY <1>1
<1> QED
  BY <1>1, <1>2

(* _lookup answers from the first of its four ways that finds an entry     *)
(* (pricing.py:196-216).                                                   *)
LEMMA LookupRight ==
  ASSUME NEW book \in Seq(Entry), NEW m \in Model
  PROVE  AnsweredRight(book, m, Lookup(book, m))
<1> DEFINE f1 == Exact(book, m)
           f2 == Exact(BuiltIn, m)
           f3 == LongestKey(book, m)
           f4 == LongestKey(BuiltIn, m)
           E1 == Owns(book, m)
           E2 == Owns(BuiltIn, m)
           E3 == Bests(book, m)
           E4 == Bests(BuiltIn, m)
<1>1. Finds(f1, E1) /\ Finds(f2, E2) /\ Finds(f3, E3) /\ Finds(f4, E4)
  BY ExactFinds, LongestFinds, RawFeeds
<1>2. /\ E1 \subseteq Entry /\ E2 \subseteq Entry /\ E3 \subseteq Entry /\ E4 \subseteq Entry
  BY RawFeeds DEF Owns, Bests, Parts
<1> DEFINE a == Lookup(book, m)
           found == f1 \o f2 \o f3 \o f4
<1>3. a = IF found = <<>> THEN NoPrice ELSE found[1].price
  BY DEF Lookup
<1>4. AnsweredRight(book, m, a) <=>
        LET Sources == <<E1, E2, E3, E4>>
        IN  \/ \E i \in DOMAIN Sources :
                 /\ \A j \in 1..(i - 1) : Sources[j] = {}
                 /\ a \in {e.price : e \in Sources[i]}
            \/ \A i \in DOMAIN Sources : Sources[i] = {} /\ a = NoPrice
  BY DEF AnsweredRight, Owns, Bests, Parts
<1> SUFFICES AnsweredRight(book, m, a)
  OBVIOUS
<1> HIDE DEF f1, f2, f3, f4, E1, E2, E3, E4, a
<1>a. \/ a \in {e.price : e \in E1}
      \/ E1 = {} /\ a \in {e.price : e \in E2}
      \/ E1 = {} /\ E2 = {} /\ a \in {e.price : e \in E3}
      \/ E1 = {} /\ E2 = {} /\ E3 = {} /\ a \in {e.price : e \in E4}
      \/ E1 = {} /\ E2 = {} /\ E3 = {} /\ E4 = {} /\ a = NoPrice
      => AnsweredRight(book, m, a)
  <2> DEFINE Sources == <<E1, E2, E3, E4>>
  <2>1. /\ DOMAIN Sources = 1..4 /\ Sources[1] = E1 /\ Sources[2] = E2
        /\ Sources[3] = E3 /\ Sources[4] = E4
    OBVIOUS
  <2>2. /\ 1..(1 - 1) = {} /\ 1..(2 - 1) = {1} /\ 1..(3 - 1) = {1, 2}
        /\ 1..(4 - 1) = {1, 2, 3} /\ 1..4 = {1, 2, 3, 4}
    OBVIOUS
  <2> HIDE DEF Sources
  <2>3. AnsweredRight(book, m, a) <=>
          \/ \E i \in DOMAIN Sources :
               /\ \A j \in 1..(i - 1) : Sources[j] = {}
               /\ a \in {e.price : e \in Sources[i]}
          \/ \A i \in DOMAIN Sources : Sources[i] = {} /\ a = NoPrice
    BY <1>4 DEF Sources
  <2> QED
    BY <2>1, <2>2, <2>3
<1>5. f1 \in Seq(Entry) /\ f2 \in Seq(Entry) /\ f3 \in Seq(Entry) /\ f4 \in Seq(Entry)
  <2>1. ASSUME NEW f, NEW E, Finds(f, E), E \subseteq Entry PROVE f \in Seq(Entry)
    <3>1. <<>> \in Seq(Entry) /\ \A e \in Entry : <<e>> \in Seq(Entry)
      OBVIOUS
    <3> QED
      BY <2>1, <3>1 DEF Finds
  <2> QED
    BY <1>1, <1>2, <2>1
<1>6. CASE E1 # {}
  <2>1. PICK e \in E1 : f1 = <<e>>
    BY <1>1, <1>6 DEF Finds
  <2>2. found # <<>> /\ found[1] = e
    BY <1>5, <2>1, OneAfterAnother
  <2>3. a \in {x.price : x \in E1}
    BY <1>3, <2>2
  <2> QED
    BY <1>a, <2>3
<1>7. CASE E1 = {} /\ E2 # {}
  <2>1. f1 = <<>>
    BY <1>1, <1>7 DEF Finds
  <2>2. PICK e \in E2 : f2 = <<e>>
    BY <1>1, <1>7 DEF Finds
  <2>3. found # <<>> /\ found[1] = e
    BY <1>5, <2>1, <2>2, OneAfterAnother
  <2>4. a \in {x.price : x \in E2}
    BY <1>3, <2>3
  <2> QED
    BY <1>a, <1>7, <2>4
<1>8. CASE E1 = {} /\ E2 = {} /\ E3 # {}
  <2>1. f1 = <<>> /\ f2 = <<>>
    BY <1>1, <1>8 DEF Finds
  <2>2. PICK e \in E3 : f3 = <<e>>
    BY <1>1, <1>8 DEF Finds
  <2>3. found # <<>> /\ found[1] = e
    BY <1>5, <2>1, <2>2, OneAfterAnother
  <2>4. a \in {x.price : x \in E3}
    BY <1>3, <2>3
  <2> QED
    BY <1>a, <1>8, <2>4
<1>9. CASE E1 = {} /\ E2 = {} /\ E3 = {}
  <2>1. f1 = <<>> /\ f2 = <<>> /\ f3 = <<>>
    BY <1>1, <1>9 DEF Finds
  <2>2. found = f4
    BY <1>5, <2>1, OneAfterAnother
  <2>3. CASE E4 = {}
    <3>1. a = NoPrice
      BY <1>1, <1>3, <2>2, <2>3 DEF Finds
    <3> QED
      BY <1>a, <1>9, <2>3, <3>1
  <2>4. CASE E4 # {}
    <3>1. PICK e \in E4 : f4 = <<e>>
      BY <1>1, <2>4 DEF Finds
    <3>2. a = e.price
      BY <1>3, <2>2, <3>1
    <3>3. a \in {x.price : x \in E4}
      BY <3>2
    <3> QED
      BY <1>a, <1>9, <3>3
  <2> QED
    BY <2>3, <2>4
<1> QED
  BY <1>6, <1>7, <1>8, <1>9 DEF a

(* Whatever feed was downloaded and whatever the threads interleaved, a    *)
(* refresh writes the price that the feed has for every name, and a lookup *)
(* answers with the exact name's price before the longest key's            *)
(* (pricing.py:135-150, 196-216).                                          *)
THEOREM PricesRight == Spec => []PricesAreRight
<1>1. IInv => PricesAreRight
  <2> SUFFICES ASSUME IInv PROVE PricesAreRight
    OBVIOUS
  <2>1. ASSUME NEW r \in Refresher, rpc[r] = "writing" PROVE ParsedRight(raw[r], Parse(raw[r]))
    BY <2>1, FeedParsed, RawFeeds DEF IInv, InHand
  <2>2. ASSUME NEW t \in Thread, pc[t] = "pricing"
        PROVE  AnsweredRight(got[t], asked[t], Lookup(got[t], asked[t]))
    <3>1. got[t] \in Book /\ asked[t] \in Model
      BY <2>2 DEF IInv, TypeOK, InHand
    <3> QED
      BY <3>1, BookTyped, LookupRight
  <2> QED
    BY <2>1, <2>2 DEF PricesAreRight
<1> QED
  BY <1>1, PricesInductive, PTL
==============================================================================
