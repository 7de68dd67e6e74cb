------------------------------- MODULE Stores -------------------------------
(***************************************************************************)
(* The two files that dispatcher invocations share without a daemon: the   *)
(* run history (internal/cost/history.go: an append-only file, compacted   *)
(* on load, both under one flock) and the price cache                      *)
(* (internal/cloudvm/pricing_cache.go: one file per provider and region,   *)
(* replaced by rename, no lock).  An invocation asks the cache for prices, *)
(* opens the history and, for `run`, records what it did (`plan` stops     *)
(* before that).  Invocations overlap, and any of them may be killed       *)
(* between two system calls; the kernel then drops its flock.              *)
(***************************************************************************)
EXTENDS Integers, FiniteSets, Sequences, SequencesExt

CONSTANTS
    Slots,          \* invocations that can run at the same time
    Budget,         \* invocations in all
    maxEntries,     \* cost.maxEntries: the records a view holds
    CompactAt,      \* lines above which load compacts (bytes in the code)
    Lengths,        \* lines that earlier invocations may have left
    ttl,            \* life of a cached price list, in clock ticks
    MaxNow,         \* the clock stops there
    FetchLag        \* ticks between a provider's answer and its cache write

ASSUME StoresAssumption ==
    /\ maxEntries \in Nat \ {0} /\ CompactAt \in Nat /\ CompactAt >= maxEntries
    /\ Lengths \subseteq Nat /\ Budget \in Nat /\ ttl \in Nat /\ MaxNow \in Nat /\ FetchLag \in Nat

(***************************************************************************)
(* A line of history.jsonl is the number of the record it holds (records   *)
(* are numbered in the order they were written), a fragment left by a      *)
(* short write, or two pieces of text on one line: neither of the last two *)
(* parses.                                                                 *)
(***************************************************************************)
Fragment == 0
Malformed == -1

VARIABLES
    pc,         \* pc[s]: where the invocation in slot s is
    left,       \* invocations still to come
    now,        \* the wall clock
    cache,      \* the price cache file of one provider and region
    cached,     \* cached[s]: what readCache returned to s
    live,       \* live[s]: what the provider answered s
    got,        \* got[s]: what Fetch returned to s
    hist,       \* the lines of history.jsonl
    inode,      \* counts the files that have been renamed to history.jsonl
    tmp,        \* the lines of history.jsonl.tmp
    flock,      \* the slots holding history.jsonl.compact.lock
    fd,         \* fd[s]: the inode s opened for appending
    entries,    \* entries[s]: the records in the store s has in memory
    next,       \* next[s]: the records a compaction is about to keep
    written,    \* records written so far
    spoiled     \* records glued to a fragment (history variable)

priceVars == <<cache, cached, live, got>>
histVars == <<hist, inode, tmp, flock, fd, entries, next, written, spoiled>>
vars == <<pc, left, now, priceVars, histVars>>

NoPrices == [ok |-> FALSE, at |-> 0, FetchedAt |-> 0]
NotAsked == [prices |-> FALSE, err |-> "none", age |-> 0]

Init ==
    /\ pc = [s \in Slots |-> "idle"] /\ left = Budget /\ now = 0
    /\ cache \in {NoPrices, [NoPrices EXCEPT !.ok = TRUE]}
    /\ cached = [s \in Slots |-> NoPrices] /\ live = [s \in Slots |-> NoPrices]
    /\ got = [s \in Slots |-> NotAsked]
    /\ written \in Lengths
    /\ hist = [i \in 1..written |-> i]
    /\ inode = 0 /\ tmp = <<>> /\ flock = {} /\ spoiled = {}
    /\ fd = [s \in Slots |-> 0]
    /\ entries = [s \in Slots |-> <<>>] /\ next = [s \in Slots |-> <<>>]

At(s, here, there) == pc[s] = here /\ pc' = [pc EXCEPT ![s] = there]

-----------------------------------------------------------------------------
(* The price cache                                                         *)

Fresh(c) == c.ok /\ now - c.FetchedAt < ttl

(* cachedFetcher.Fetch up to the live fetch; readCache reads what the last *)
(* rename left, whole.                                                     *)
ReadCache(s) ==
    /\ left > 0 /\ left' = left - 1
    /\ pc[s] = "idle"
    /\ cached' = [cached EXCEPT ![s] = cache]
    /\ \/ /\ Fresh(cache)
          /\ pc' = [pc EXCEPT ![s] = "load"]
          /\ got' = [got EXCEPT ![s] = [prices |-> TRUE, err |-> "none",
                                        age |-> now - cache.at]]
       \/ /\ ~Fresh(cache)
          /\ pc' = [pc EXCEPT ![s] = "fetch"]
          /\ UNCHANGED got
    /\ UNCHANGED <<now, cache, live, histVars>>

(* The provider answers, perhaps with an empty list.                       *)
Answer(s) ==
    /\ At(s, "fetch", "store")
    /\ \E nonEmpty \in BOOLEAN :
          live' = [live EXCEPT ![s] = [ok |-> nonEmpty, at |-> now, FetchedAt |-> now]]
    /\ UNCHANGED <<left, now, cache, cached, got, histVars>>

(* The provider fails; only a failure that is not about credentials may be *)
(* papered over with the stale list.                                       *)
MutFallback(c, err) == c.ok
Fallback(c, err) == c.ok /\ err # "credentials"

FetchFails(s) ==
    /\ At(s, "fetch", "load")
    /\ \E err \in {"blip", "credentials"} :
          got' = [got EXCEPT ![s].err = err,
                             ![s].prices = Fallback(cached[s], err),
                             ![s].age = now - cached[s].at]
    /\ UNCHANGED <<left, now, cache, cached, live, histVars>>

(* writeCache: an empty answer is never cached, and a failed write leaves  *)
(* the file there was; FetchedAt is the time of the write.                 *)
WriteCache(s) ==
    IF live[s].ok THEN [live[s] EXCEPT !.FetchedAt = now] ELSE cache

Store(s) ==
    /\ At(s, "store", "load")
    /\ \/ cache' = WriteCache(s)
       \/ cache' = cache
    /\ got' = [got EXCEPT ![s].prices = live[s].ok, ![s].age = now - live[s].at]
    /\ UNCHANGED <<left, now, cached, live, histVars>>

(* Time passes, but an answer in hand is cached within FetchLag.           *)
Tick ==
    /\ now < MaxNow /\ now' = now + 1
    /\ \A s \in Slots : pc[s] = "store" => now - live[s].at < FetchLag
    /\ UNCHANGED <<pc, left, priceVars, histVars>>

-----------------------------------------------------------------------------
(* The history                                                             *)

(* The last maxEntries of a list of records.                               *)
Capped(e) == SubSeq(e, IF Len(e) > maxEntries THEN Len(e) - maxEntries + 1 ELSE 1, Len(e))

(* Every line that parses, in the order of the file.                       *)
scanHistoryFile == SelectSeq(hist, LAMBDA l : l > 0)

(* The prices have been used by the time the history is opened.            *)
Priced(s) ==
    /\ cached' = [cached EXCEPT ![s] = NoPrices]
    /\ live' = [live EXCEPT ![s] = NoPrices]
    /\ got' = [got EXCEPT ![s] = NotAsked]
    /\ UNCHANGED cache

(* NewHistoryStore: load scans the file without the lock ...               *)
Load(s) ==
    /\ At(s, "load", "stat")
    /\ entries' = [entries EXCEPT ![s] = Capped(scanHistoryFile)]
    /\ Priced(s)
    /\ UNCHANGED <<left, now, hist, inode, tmp, flock, fd, next, written, spoiled>>

(* ... and looks at its size afterwards; compactOnLoad, whose error is     *)
(* ignored, gives up when it cannot open the lock file.                    *)
Stat(s) ==
    /\ \/ At(s, "stat", "compact") /\ Len(hist) > CompactAt
       \/ At(s, "stat", "opened")
    /\ UNCHANGED <<left, now, priceVars, histVars>>

(* flockExclusive blocks until the lock is free.                           *)
flockExclusive(s) == flock = {} /\ flock' = {s}

CompactLock(s) ==
    /\ At(s, "compact", "reread")
    /\ flockExclusive(s)
    /\ UNCHANGED <<left, now, priceVars, hist, inode, tmp, fd, entries, next, written, spoiled>>

(* The records it keeps are read again, under the lock.                    *)
MutReread(s) == entries[s]
Reread(s) == Capped(scanHistoryFile)

Truncated == <<>>

CompactRead(s) ==
    /\ At(s, "reread", "rewrite")
    /\ next' = [next EXCEPT ![s] = Reread(s)]
    /\ tmp' = Truncated
    /\ UNCHANGED <<left, now, priceVars, hist, inode, flock, fd, entries, written, spoiled>>

(* The new file is written; an error removes it and leaves the history     *)
(* alone.  Either way the flock is released on return.                     *)
CompactWrite(s) ==
    /\ \/ /\ At(s, "rewrite", "rename")
          /\ tmp' = tmp \o next[s]
          /\ entries' = [entries EXCEPT ![s] = next[s]]
          /\ UNCHANGED flock
       \/ /\ At(s, "rewrite", "opened")
          /\ tmp' = <<>>
          /\ flock' = flock \ {s}
          /\ UNCHANGED entries
    /\ next' = [next EXCEPT ![s] = <<>>]
    /\ UNCHANGED <<left, now, priceVars, hist, inode, fd, written, spoiled>>

MutUnlocked(s) == flock
Unlocked(s) == flock \ {s}

(* The rename, which may fail and leave the temporary file behind.         *)
CompactRename(s) ==
    /\ At(s, "rename", "opened")
    /\ flock' = Unlocked(s)
    /\ \/ hist' = tmp /\ inode' = inode + 1 /\ tmp' = <<>>
       \/ UNCHANGED <<hist, inode, tmp>>
    /\ UNCHANGED <<left, now, priceVars, fd, entries, next, written, spoiled>>

(* An invocation that ends forgets what it held.                           *)
Forget(s) ==
    /\ Priced(s)
    /\ entries' = [entries EXCEPT ![s] = <<>>]
    /\ next' = [next EXCEPT ![s] = <<>>]
    /\ fd' = [fd EXCEPT ![s] = 0]

(* `dispatcher plan` has read what it wanted; or Record refuses a line of  *)
(* more than 4096 bytes, or cannot open the lock file.                     *)
Finish(s) ==
    /\ At(s, "opened", "idle")
    /\ Forget(s)
    /\ UNCHANGED <<left, now, hist, inode, tmp, flock, written, spoiled>>

(* `dispatcher run` has a line to record.                                  *)
Record(s) ==
    /\ At(s, "opened", "record")
    /\ UNCHANGED <<left, now, priceVars, histVars>>

(* appendLine takes the same flock ...                                     *)
AppendLock(s) ==
    /\ At(s, "record", "open")
    /\ flockExclusive(s)
    /\ UNCHANGED <<left, now, priceVars, hist, inode, tmp, fd, entries, next, written, spoiled>>

(* ... opens the file that has the name now ...                            *)
AppendOpen(s) ==
    /\ At(s, "open", "append")
    /\ fd' = [fd EXCEPT ![s] = inode]
    /\ UNCHANGED <<left, now, priceVars, hist, inode, tmp, flock, entries, next, written, spoiled>>

(* ... and writes one line with O_APPEND.  What is written after a         *)
(* fragment lands on the fragment's line; what is written to a file that   *)
(* has lost its name is gone.                                              *)
AfterFragment == Len(hist) > 0 /\ Last(hist) = Fragment

AppendWrite(s) ==
    /\ At(s, "append", "recorded")
    /\ written' = written + 1
    /\ hist' = IF fd[s] # inode THEN hist
               ELSE IF AfterFragment THEN Front(hist) \o <<Malformed>>
               ELSE Append(hist, written')
    /\ spoiled' = IF fd[s] = inode /\ AfterFragment
                  THEN spoiled \union {written'} ELSE spoiled
    /\ entries' = [entries EXCEPT ![s] = Capped(Append(@, written'))]
    /\ UNCHANGED <<left, now, priceVars, inode, tmp, flock, fd, next>>

(* The write fails, perhaps after some of the line; Record returns the     *)
(* error, which recordRunHistory drops.                                    *)
AppendFails(s) ==
    /\ At(s, "append", "recorded")
    /\ hist' \in {hist, IF AfterFragment THEN hist ELSE Append(hist, Fragment)}
    /\ UNCHANGED <<left, now, priceVars, inode, tmp, flock, fd, entries, next, written, spoiled>>

(* Record returns, and with it the invocation.                             *)
Recorded(s) ==
    /\ At(s, "recorded", "idle")
    /\ flock' = flock \ {s}
    /\ Forget(s)
    /\ UNCHANGED <<left, now, hist, inode, tmp, written, spoiled>>

(* The invocation is killed: files stay as they are, the flock is freed.   *)
Crash(s) ==
    /\ pc[s] # "idle" /\ pc' = [pc EXCEPT ![s] = "idle"]
    /\ flock' = flock \ {s}
    /\ Forget(s)
    /\ UNCHANGED <<left, now, hist, inode, tmp, written, spoiled>>

-----------------------------------------------------------------------------
(* A started invocation runs on.                                           *)
Run(s) ==
    \/ Answer(s) \/ FetchFails(s) \/ Store(s)
    \/ Load(s) \/ Stat(s) \/ CompactLock(s) \/ CompactRead(s)
    \/ CompactWrite(s) \/ CompactRename(s)
    \/ Finish(s) \/ Record(s) \/ AppendLock(s) \/ AppendOpen(s)
    \/ AppendWrite(s) \/ AppendFails(s) \/ Recorded(s)

Next == Tick \/ \E s \in Slots : ReadCache(s) \/ Run(s) \/ Crash(s)

(* Every process gets to run; nothing makes an invocation start, the       *)
(* clock move, or a crash happen.                                          *)
Spec == Init /\ [][Next]_vars /\ \A s \in Slots : WF_vars(Run(s))

-----------------------------------------------------------------------------
Steps == {"idle", "fetch", "store", "load", "stat", "compact", "reread", "rewrite",
          "rename", "opened", "record", "open", "append", "recorded"}

(* The types of the two files and of what an invocation holds; the flock   *)
(* has at most one holder and views are never longer than maxEntries.      *)
TypeOK ==
    /\ pc \in [Slots -> Steps] /\ left \in 0..Budget /\ now \in 0..MaxNow
    /\ \A s \in Slots : Len(entries[s]) =< maxEntries /\ Len(next[s]) =< maxEntries
    /\ \A i \in 1..Len(hist) : hist[i] \in Malformed..written
    /\ flock \in SUBSET Slots /\ Cardinality(flock) =< 1
    /\ spoiled \in SUBSET (1..written)

(* Of the records ever written, the newest maxEntries are in the file, in  *)
(* every interleaving of appends, compactions and crashes (Record:         *)
(* "concurrent dispatcher processes never lose each other's entries"),     *)
(* except one written straight after a fragment that a failed write left.  *)
NewestKept ==
    \A id \in 1..written :
        id > written - maxEntries /\ id \notin spoiled
            => \E i \in 1..Len(hist) : hist[i] = id

(* Prices older than the ttl (plus the time an answer may take to reach    *)
(* the file) are used only by an invocation whose own fetch failed for a   *)
(* passing reason; without credentials there are no prices at all.         *)
FreshOrBlip ==
    \A s \in Slots : got[s].prices =>
        /\ got[s].err # "credentials"
        /\ got[s].err = "none" => got[s].age < ttl + FetchLag \/ got[s].age =< FetchLag

(* Every invocation ends: the flock taken to compact is released before    *)
(* Record takes it again, and a killed holder does not keep it.            *)
InvocationEnds == \A s \in Slots : pc[s] # "idle" ~> pc[s] = "idle"
=============================================================================
