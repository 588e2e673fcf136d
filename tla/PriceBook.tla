------------------------------ MODULE PriceBook ------------------------------
(***************************************************************************)
(* The model prices (server/pricing.py): a file that refreshes rewrite, a  *)
(* feed that a process loads from it once, and the memo of its lookups.    *)
(*                                                                         *)
(* The threads are those of one process, which ingests, replays and looks  *)
(* prices up.  Refreshers run in the process (pricing.refresh) or in       *)
(* processes of their own (ragobserve prices --refresh, as cron calls it). *)
(* No lock guards any of this, and a thread may be suspended wherever      *)
(* Python does I/O or calls a function.                                    *)
(***************************************************************************)
EXTENDS Integers, FiniteSets, Sequences, SequencesExt

CONSTANTS Thread,     \* threads of the process that look prices up
          Refresher,  \* who may refresh
          Inside,     \* the refreshers that run in the process
          Key,        \* names in books
          Model,      \* names asked for
          Occurs,     \* [Model -> SUBSET Key], the keys a name begins with or contains
          Length,     \* [Key -> Nat], how long a key is
          Price,
          NoPrice,    \* the answer for an unknown model
          Raw,        \* the feeds that may be downloaded
          BuiltIn,    \* PRICE_BOOK
          Unloaded,   \* _FEED is None
          Absent,     \* the file does not exist
          Torn,       \* the file is not the JSON of a book
          Unset,      \* the memo has no answer
          MemoSize    \* lru_cache's maxsize

(* A book is a dict in its order; a raw entry also has the model's bare    *)
(* name and whether it is a priced chat model.                             *)
Entry == [key : Key, price : Price]
RawEntry == [key : Key, bare : Key, usable : BOOLEAN, price : Price]

ASSUME Names == Occurs \in [Model -> SUBSET Key] /\ Length \in [Key -> Nat]
ASSUME RawFeeds == Raw \subseteq Seq(RawEntry) /\ BuiltIn \in Seq(Entry)
ASSUME Insiders == Inside \subseteq Refresher
ASSUME MemoAssumption == MemoSize \in Nat \ {0}

------------------------------------------------------------------------------
(* _parse_feed. *)

Has(book, k) == \E i \in DOMAIN book : book[i].key = k

(* dict.setdefault *)
SetDefault(book, k, p) ==
  IF Has(book, k) THEN book ELSE Append(book, [key |-> k, price |-> p])

(* An assignment to a dict's key, which keeps the place of an old one. *)
Put(book, k, p) ==
  IF Has(book, k)
  THEN [i \in DOMAIN book |-> IF book[i].key = k THEN [book[i] EXCEPT !.price = p]
                              ELSE book[i]]
  ELSE Append(book, [key |-> k, price |-> p])

(* A usable entry under its own name, and under its bare name unless that  *)
(* is taken.                                                               *)
WithEntry(book, e) ==
  IF e.usable THEN SetDefault(Put(book, e.key, e.price), e.bare, e.price) ELSE book

Parse(raw) == FoldLeft(WithEntry, <<>>, raw)

Book == {Parse(raw) : raw \in Raw} \cup {<<>>}

ASSUME Sentinels == Unloaded \notin Book /\ {Absent, Torn} \cap Book = {}

------------------------------------------------------------------------------
(* _lookup, once it has the feed.  What a book says of a name is a         *)
(* sequence: empty, or the entry that answers first.                       *)

Exact(book, m) ==
  IF Has(book, m) THEN <<book[CHOOSE i \in DOMAIN book : book[i].key = m]>> ELSE <<>>

(* Mutant: the first key that occurs in the name answers. *)
FirstKey(book, m) ==
  FoldLeft(LAMBDA best, e : IF e.key \in Occurs[m] /\ best = <<>> THEN <<e>> ELSE best,
           <<>>, book)

(* The loop over a book: the longest key that the name begins with or      *)
(* contains, the first of several as long.                                 *)
LongestKey(book, m) ==
  FoldLeft(LAMBDA best, e :
             IF e.key \in Occurs[m] /\ (best = <<>> \/ Length[e.key] > Length[best[1].key])
             THEN <<e>> ELSE best,
           <<>>, book)

Lookup(book, m) ==
  LET found == Exact(book, m) \o Exact(BuiltIn, m)
                 \o LongestKey(book, m) \o LongestKey(BuiltIn, m)
  IN  IF found = <<>> THEN NoPrice ELSE found[1].price

Answer == {Lookup(book, m) : book \in Book, m \in Model}

ASSUME NoAnswer == Unset \notin Answer

------------------------------------------------------------------------------

VARIABLES file,    \* prices.json
          raw,     \* the feed each refresher downloaded
          rpc,     \* what each refresher does
          clash,   \* refreshers whose writing overlapped another's
          feed,    \* _FEED
          memo,    \* the cache of _lookup
          pc,      \* what each thread does
          asked,   \* the model it looks up
          got,     \* the book it holds
          behind   \* history: the process may have missed a refresh

refreshers == <<raw, rpc, clash>>
threads == <<pc, asked, got>>
vars == <<file, refreshers, feed, memo, threads, behind>>

TypeOK ==
  /\ file \in Book \cup {Absent, Torn}
  /\ raw \in [Refresher -> Raw \cup {<<>>}]
  /\ rpc \in [Refresher -> {"idle", "writing", "resetting", "clearing"}]
  /\ clash \in SUBSET Refresher
  /\ feed \in Book \cup {Unloaded}
  /\ memo \in [Model -> Answer \cup {Unset}]
  /\ pc \in [Thread -> {"idle", "reading", "storing", "returning", "pricing"}]
  /\ asked \in [Thread -> Model \cup {Unset}]
  /\ got \in [Thread -> Book]
  /\ behind \in BOOLEAN

(* The module is imported; the prices were never refreshed, or the only    *)
(* refresh was cut off.  What a whole one leaves is found after a Restart. *)
Init ==
  /\ file \in {Absent, Torn}
  /\ raw = [r \in Refresher |-> <<>>]
  /\ rpc = [r \in Refresher |-> "idle"]
  /\ clash = {}
  /\ feed = Unloaded
  /\ memo = [m \in Model |-> Unset]
  /\ pc = [t \in Thread |-> "idle"]
  /\ asked = [t \in Thread |-> Unset]
  /\ got = [t \in Thread |-> <<>>]
  /\ behind = FALSE

(* Mutant: an unreadable file is taken as it is. *)
ContentUnguarded == file

(* What a process that reads the file takes it for: anything that cannot   *)
(* be read is an empty book.                                               *)
Content == IF file \in Book THEN file ELSE <<>>

(* The process has something that it took from the file, or is about to. *)
Warm ==
  \/ feed # Unloaded
  \/ \E m \in Model : memo[m] # Unset
  \/ \E t \in Thread : pc[t] # "idle"

------------------------------------------------------------------------------
(* _lookup and _load_feed. *)

(* A lookup that the memo cannot answer: the feed if it is loaded, else    *)
(* the file.                                                               *)
Ask(t, m) ==
  /\ pc[t] = "idle"
  /\ memo[m] = Unset
  /\ asked' = [asked EXCEPT ![t] = m]
  /\ \/ /\ feed = Unloaded
        /\ pc' = [pc EXCEPT ![t] = "reading"]
        /\ UNCHANGED got
     \/ /\ feed # Unloaded
        /\ pc' = [pc EXCEPT ![t] = "pricing"]
        /\ got' = [got EXCEPT ![t] = feed]
  /\ UNCHANGED <<file, refreshers, feed, memo, behind>>

ReadFile(t) ==
  /\ pc[t] = "reading"
  /\ got' = [got EXCEPT ![t] = Content]
  /\ pc' = [pc EXCEPT ![t] = "storing"]
  /\ UNCHANGED <<file, refreshers, feed, memo, asked, behind>>

(* _FEED = ..., or {} after an exception. *)
StoreFeed(t) ==
  /\ pc[t] = "storing"
  /\ feed' = got[t]
  /\ pc' = [pc EXCEPT ![t] = "returning"]
  /\ UNCHANGED <<file, refreshers, memo, asked, got, behind>>

(* The lookup has answered or raised. *)
Finish(t) ==
  /\ pc' = [pc EXCEPT ![t] = "idle"]
  /\ asked' = [asked EXCEPT ![t] = Unset]
  /\ got' = [got EXCEPT ![t] = <<>>]

(* return _FEED, once the file is closed: the global is read again.  If it *)
(* was reset meanwhile, the test for the exact name raises.                *)
ReturnFeed(t) ==
  /\ pc[t] = "returning"
  /\ \/ /\ feed # Unloaded
        /\ got' = [got EXCEPT ![t] = feed]
        /\ pc' = [pc EXCEPT ![t] = "pricing"]
        /\ UNCHANGED asked
     \/ /\ feed = Unloaded
        /\ Finish(t)
  /\ UNCHANGED <<file, refreshers, feed, memo, behind>>

(* The answer is found and memoised.  Another thread may have memoised one *)
(* already, which stays; a full memo forgets an old one.                   *)
Memoise(t) ==
  /\ pc[t] = "pricing"
  /\ LET m     == asked[t]
         known == {k \in Model : memo[k] # Unset}
     IN  \/ /\ memo[m] # Unset
            /\ UNCHANGED memo
         \/ /\ memo[m] = Unset
            /\ Cardinality(known) < MemoSize
            /\ memo' = [memo EXCEPT ![m] = Lookup(got[t], m)]
         \/ /\ memo[m] = Unset
            /\ Cardinality(known) >= MemoSize
            /\ \E old \in known :
                 memo' = [memo EXCEPT ![old] = Unset, ![m] = Lookup(got[t], m)]
  /\ Finish(t)
  /\ UNCHANGED <<file, refreshers, feed, behind>>

------------------------------------------------------------------------------
(* refresh. *)

(* The download is parsed; one without prices is refused.  Opening the     *)
(* file for writing empties it.                                            *)
OpenFile(r, new) ==
  /\ rpc[r] = "idle"
  /\ Parse(new) # <<>>
  /\ raw' = [raw EXCEPT ![r] = new]
  /\ rpc' = [rpc EXCEPT ![r] = "writing"]
  /\ LET others == {s \in Refresher : rpc[s] = "writing"}
     IN  clash' = IF others = {} THEN clash \ {r} ELSE clash \cup others \cup {r}
  /\ file' = Torn
  /\ behind' = (behind \/ (r \notin Inside /\ Warm))
  /\ UNCHANGED <<feed, memo, threads>>

(* The file is written and closed.  If another wrote at the same time, the *)
(* one may have overwritten a part of the other.                           *)
CloseFile(r) ==
  /\ rpc[r] = "writing"
  /\ \/ file' = Parse(raw[r])
     \/ r \in clash /\ file' \in {file, Torn}
  /\ rpc' = [rpc EXCEPT ![r] = IF r \in Inside THEN "resetting" ELSE "idle"]
  /\ raw' = [raw EXCEPT ![r] = <<>>]
  /\ behind' = (behind \/ (r \notin Inside /\ Warm))
  /\ UNCHANGED <<clash, feed, memo, threads>>

(* The write fails, or the process of an outside refresher is killed: the  *)
(* file stays as it is and nothing is reset.                               *)
Abandon(r) ==
  /\ rpc[r] = "writing"
  /\ rpc' = [rpc EXCEPT ![r] = "idle"]
  /\ raw' = [raw EXCEPT ![r] = <<>>]
  /\ behind' = (behind \/ Warm)
  /\ UNCHANGED <<file, clash, feed, memo, threads>>

(* _FEED = None *)
ResetFeed(r) ==
  /\ rpc[r] = "resetting"
  /\ rpc' = [rpc EXCEPT ![r] = "clearing"]
  /\ feed' = Unloaded
  /\ behind' = (\E t \in Thread : pc[t] # "idle")
  /\ UNCHANGED <<file, raw, clash, memo, threads>>

(* Mutant: the memo is left as it is. *)
ClearNothing(r) ==
  /\ rpc[r] = "clearing"
  /\ rpc' = [rpc EXCEPT ![r] = "idle"]
  /\ UNCHANGED <<file, raw, clash, feed, memo, threads, behind>>

(* _lookup.cache_clear() *)
ClearMemo(r) ==
  /\ rpc[r] = "clearing"
  /\ rpc' = [rpc EXCEPT ![r] = "idle"]
  /\ memo' = [m \in Model |-> Unset]
  /\ UNCHANGED <<file, raw, clash, feed, threads, behind>>

(* The process ends, in the middle of a refresh perhaps, and starts again. *)
Restart ==
  /\ feed' = Unloaded
  /\ memo' = [m \in Model |-> Unset]
  /\ pc' = [t \in Thread |-> "idle"]
  /\ asked' = [t \in Thread |-> Unset]
  /\ got' = [t \in Thread |-> <<>>]
  /\ raw' = [r \in Refresher |-> IF r \in Inside THEN <<>> ELSE raw[r]]
  /\ rpc' = [r \in Refresher |-> IF r \in Inside THEN "idle" ELSE rpc[r]]
  /\ behind' = FALSE
  /\ UNCHANGED <<file, clash>>

------------------------------------------------------------------------------

ThreadStep(t) == ReadFile(t) \/ StoreFeed(t) \/ ReturnFeed(t) \/ Memoise(t)

RefreshStep(r) == CloseFile(r) \/ Abandon(r) \/ ResetFeed(r) \/ ClearMemo(r)

Next ==
  \/ \E t \in Thread : (\E m \in Model : Ask(t, m)) \/ ThreadStep(t)
  \/ \E r \in Refresher : (\E new \in Raw : OpenFile(r, new)) \/ RefreshStep(r)
  \/ Restart

Spec == Init /\ [][Next]_vars

------------------------------------------------------------------------------

(* What a usable entry says of its own name is what the book says, the     *)
(* last of several entries if they are equal but for case; a bare name     *)
(* that is nobody's own is the first provider's (pricing.py:135-150).      *)
ParsedRight(new, book) ==
  LET usable   == {i \in DOMAIN new : new[i].usable}
      Own(k)   == {i \in usable : new[i].key = k}
      Bare(k)  == {i \in usable : new[i].bare = k}
      Says(k, i) == [key |-> k, price |-> new[i].price] \in {book[j] : j \in DOMAIN book}
  IN  /\ \A k \in Key : Own(k) # {} => Says(k, Max(Own(k)))
      /\ \A k \in Key : Own(k) = {} /\ Bare(k) # {} => Says(k, Min(Bare(k)))
      /\ \A k \in Key : Has(book, k) <=> Own(k) \cup Bare(k) # {}

(* a is the price of the exact name in the loaded feed, else in the        *)
(* built-in book, else of a key in the feed that the name contains and     *)
(* that no such key of the feed is longer than, else of one in the         *)
(* built-in book.                                                          *)
AnsweredRight(book, m, a) ==
  LET In(b)    == {b[i] : i \in DOMAIN b}
      Own(b)   == {e \in In(b) : e.key = m}
      Part(b)  == {e \in In(b) : e.key \in Occurs[m]}
      Best(b)  == {e \in Part(b) : \A f \in Part(b) : Length[f.key] <= Length[e.key]}
      Sources  == <<Own(book), Own(BuiltIn), Best(book), Best(BuiltIn)>>
  IN  \/ \E i \in DOMAIN Sources :
           /\ \A j \in 1..(i - 1) : Sources[j] = {}
           /\ a \in {e.price : e \in Sources[i]}
      \/ \A i \in DOMAIN Sources : Sources[i] = {} /\ a = NoPrice

(* Every lookup answers with the entry that the documentation promises     *)
(* (GUIDE.md:638, "exact match first, then by longest matching key"), from *)
(* a feed in which every model has its own price (pricing.py:196-216).     *)
PricesAreRight ==
  /\ \A r \in Refresher : rpc[r] = "writing" => ParsedRight(raw[r], Parse(raw[r]))
  /\ \A t \in Thread : pc[t] = "pricing" =>
       AnsweredRight(got[t], asked[t], Lookup(got[t], asked[t]))

(* A refresh of the process is under way. *)
Refreshing == \E r \in Inside : rpc[r] # "idle"

(* What the process has loaded and memoised is what the file says, and a   *)
(* lookup finds the feed that it has just loaded: if not, the lookup       *)
(* raises, and with it the ingest of the batch (db.py:166).  The exception *)
(* is a process that may be behind: another process touched the file, a    *)
(* refresh of its own failed in the writing, or a lookup was in flight     *)
(* when the feed was reset (pricing.py:153-183).                           *)
CachedIsOnDisk ==
  ~behind =>
    /\ ~Refreshing => /\ feed \in {Unloaded, Content}
                      /\ \A m \in Model : memo[m] \in {Unset, Lookup(Content, m)}
    /\ \A t \in Thread : pc[t] = "returning" => feed # Unloaded
==============================================================================
