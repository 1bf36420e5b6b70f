------------------------------ MODULE DictCache ------------------------------
(***************************************************************************)
(* DictionaryCache of the Rust SDK: a directory of dictionaries that       *)
(* processes share with no lock.  Every step is one call on the file       *)
(* system, or the clock; the file system may refuse any of them, a process *)
(* may die between two, and something else may damage a file.  What a file *)
(* has is the dictionary it is named for, or something else.               *)
(***************************************************************************)
EXTENDS Integers, FiniteSets

CONSTANTS
  Ids,          \* the dictionaries, each under its id
  Procs,        \* the processes, or connections of one
  Keep,         \* KEEP
  MaxCalls,     \* bound: calls begun
  MaxMishaps,   \* bound: processes that died in a call, and refusals that leave a file
  MaxDamage     \* bound: files damaged from outside

ASSUME DictCacheAssumption ==
  /\ IsFiniteSet(Procs)
  /\ Keep \in Nat \ {0}
  /\ MaxCalls \in Nat
  /\ MaxMishaps \in Nat
  /\ MaxDamage \in Nat

VARIABLES
  held,         \* the ids there is a .dict file for
  whole,        \* those whose bytes hash to their name
  used,         \* its modification time
  temps,        \* each .tmp file's time of writing, 0 until its bytes are all there
  clock,        \* what SystemTime::now last said
  opened,       \* the processes whose open file still has the name they opened
  last,         \* when each was last stored or loaded, whatever its file says
  late,         \* the ids whose file was not, or not yet, stamped with that
  doing,        \* where each process is
  op,           \* "newest" or "store", or "none"
  id,           \* the dictionary that is about
  call,         \* the number of a store, in the name of the temporary file it has
  stamp,        \* the time it read, to stamp a file with
  unseen,       \* ids its read_dir has not come to
  list,         \* ids it listed and has not dealt with, with their times
  stale,        \* ids of which its listing tells what is no longer, or never was, so
  calls,        \* calls begun
  crashes,      \* processes that died in one
  littered,     \* temporary files a failed store was refused to remove
  spared,       \* times a prune was refused a name, or the removal of a file
  damaged       \* ids whose file was damaged

files == <<held, whole, used, temps, clock, opened, last, late>>
toll == <<calls, crashes, littered, spared>>
place == <<op, id, call, stamp, toll>>
scan == <<unseen, list>>
cacheVars == <<files, place, scan, doing, stale, damaged>>

-----------------------------------------------------------------------------

TempShared(p) == <<id[p]>>    \* mutant: one temporary path for a dictionary

(* The temporary name is unique per call. *)
Temp(p) == <<id[p], call[p]>>

(* Mutant: a stored file keeps the time its write left. *)
StampedByWrite(p) == IF op[p] = "store" THEN used[id[p]] ELSE stamp[p]

(* touch sets the time it read before it opened the file. *)
Stamped(p) == stamp[p]

RestLatest(listing, skip) ==    \* mutant: sorted the other way
  {r \in SUBSET DOMAIN listing :
     /\ Cardinality(r) = Cardinality(DOMAIN listing) - skip
     /\ \A d \in r, e \in DOMAIN listing \ r : listing[d] >= listing[e]}

(* What would be left of a listing after `skip`: as many as that, none of them
   used later than those skipped.  Equal times are in no particular order. *)
Rest(listing, skip) ==
  {r \in SUBSET DOMAIN listing :
     /\ Cardinality(r) = Cardinality(DOMAIN listing) - skip
     /\ \A d \in r, e \in DOMAIN listing \ r : listing[d] <= listing[e]}

PrunedLate(p) ==    \* mutant: one more is kept
  IF Cardinality(DOMAIN list[p]) <= Keep + 1 THEN {{}} ELSE Rest(list[p], Keep + 1)

Pruned(p) == IF Cardinality(DOMAIN list[p]) <= Keep THEN {{}} ELSE Rest(list[p], Keep)

(* The next of a listing sorted by use, most recent first. *)
First(p, d) ==
  d \in DOMAIN list[p] /\ \A e \in DOMAIN list[p] : list[p][e] <= list[p][d]

(* One name less, and one more, in a listing or among the temporary files. *)
Without(listing, d) == [e \in DOMAIN listing \ {d} |-> listing[e]]

With(listing, d, t) == [e \in DOMAIN listing \cup {d} |-> IF e = d THEN t ELSE listing[e]]

GivesUp(p, d) == IF d \in whole THEN Without(list[p], d) ELSE <<>>    \* mutant: only the first is tried

(* What newest has left to try after d. *)
Others(p, d) == Without(list[p], d)

Goes(p, where) == doing' = [doing EXCEPT ![p] = where]

Returns(p) == Goes(p, "idle") /\ op' = [op EXCEPT ![p] = "none"]

(* A process that lists the directory, or goes by what it listed. *)
Looking(p) == doing[p] \in {"listing", "trying", "removing", "pruning"}

(* What those who look have of d, or will list of it, need not be what there is. *)
Disturbs(who, d) ==
  stale' = [q \in Procs |-> IF q \in who /\ Looking(q) THEN stale[q] \cup {d} ELSE stale[q]]

(* The directory is about to be read. *)
Listing(p) == unseen' = [unseen EXCEPT ![p] = Ids] /\ UNCHANGED list

(* The listing is done with. *)
Looked(p) ==
  /\ unseen' = [unseen EXCEPT ![p] = {}]
  /\ list' = [list EXCEPT ![p] = <<>>]
  /\ stale' = [stale EXCEPT ![p] = {}]

(* One more call may be cut short where that leaves a file behind. *)
Mishap == crashes + littered + spared < MaxMishaps

CacheInit ==
  /\ held = {}
  /\ whole = {}
  /\ used = [d \in Ids |-> 0]
  /\ temps = <<>>
  /\ clock = 2
  /\ opened = {}
  /\ last = [d \in Ids |-> 0]
  /\ late = {}
  /\ doing = [p \in Procs |-> "idle"]
  /\ op = [p \in Procs |-> "none"]
  /\ id \in [Procs -> Ids]
  /\ call = [p \in Procs |-> 0]
  /\ stamp = [p \in Procs |-> 0]
  /\ unseen = [p \in Procs |-> {}]
  /\ list = [p \in Procs |-> <<>>]
  /\ stale = [p \in Procs |-> {}]
  /\ calls = 0
  /\ crashes = 0
  /\ littered = 0
  /\ spared = 0
  /\ damaged = {}

Begins(p, what, where) ==
  /\ doing[p] = "idle"
  /\ calls < MaxCalls
  /\ calls' = calls + 1
  /\ op' = [op EXCEPT ![p] = what]
  /\ Goes(p, where)
  /\ UNCHANGED <<files, stamp, crashes, littered, spared, stale, damaged>>

Newest(p) ==
  /\ Begins(p, "newest", "listing")
  /\ Listing(p)
  /\ UNCHANGED <<id, call>>

(* The bytes hash to the id: connect checked that when they were sent. *)
Store(p) ==
  /\ Begins(p, "store", "create")
  /\ \E d \in Ids : id' = [id EXCEPT ![p] = d]
  /\ call' = [call EXCEPT ![p] = calls + 1]
  /\ UNCHANGED scan

(* read_dir comes to one more name; `entries` takes the time of a .dict file, or the
   epoch when it is refused that or the file has gone since. *)
List(p) ==
  /\ doing[p] = "listing"
  /\ \E d \in unseen[p] :
       /\ unseen' = [unseen EXCEPT ![p] = @ \ {d}]
       /\ \/ /\ d \in held
             /\ list' = [list EXCEPT ![p] = With(@, d, used[d])]
             /\ UNCHANGED stale
          \/ /\ d \in held \cup stale[p]
             /\ list' = [list EXCEPT ![p] = With(@, d, 0)]
             /\ stale' = [stale EXCEPT ![p] = @ \cup {d}]
          \/ /\ d \notin held
             /\ UNCHANGED <<list, stale>>
  /\ UNCHANGED <<files, place, doing, damaged>>

(* read_dir fails, or stops at an error: what it has not come to is not listed. *)
ListFails(p) ==
  /\ doing[p] = "listing"
  /\ unseen[p] \cap held # {}
  /\ \/ op[p] = "newest" /\ UNCHANGED spared
     \/ op[p] = "store" /\ Mishap /\ spared' = spared + 1
  /\ unseen' = [unseen EXCEPT ![p] = {}]
  /\ stale' = [stale EXCEPT ![p] = @ \cup (unseen[p] \cap held)]
  /\ UNCHANGED <<files, op, id, call, stamp, calls, crashes, littered, list, doing, damaged>>

(* The listing is sorted, and is what `newest` tries or what `prune` removes. *)
Listed(p) ==
  /\ doing[p] = "listing"
  /\ unseen[p] = {}
  /\ \/ /\ op[p] = "newest"
        /\ Goes(p, "trying")
        /\ UNCHANGED list
     \/ /\ op[p] = "store"
        /\ Goes(p, "pruning")
        /\ \E r \in Pruned(p) : list' = [list EXCEPT ![p] = [d \in r |-> @[d]]]
  /\ UNCHANGED <<files, place, unseen, stale, damaged>>

-----------------------------------------------------------------------------
(* newest, and the load of each candidate *)

(* No candidate is left: there was none, or none that was intact. *)
NoneLeft(p) ==
  /\ doing[p] = "trying"
  /\ DOMAIN list[p] = {}
  /\ Returns(p)
  /\ Looked(p)
  /\ UNCHANGED <<files, id, call, stamp, toll, damaged>>

(* The next candidate is read, and hashed: an intact one ends the search.  One that is
   gone, or that may not be read, is passed over. *)
Load(p) ==
  /\ doing[p] = "trying"
  /\ \E d \in Ids :
       /\ First(p, d)
       /\ id' = [id EXCEPT ![p] = d]
       /\ \/ /\ d \in whole
             /\ Goes(p, "touching")
             /\ Looked(p)
          \/ /\ d \in held \ whole
             /\ Goes(p, "removing")
             /\ list' = [list EXCEPT ![p] = Others(p, d)]
             /\ UNCHANGED <<unseen, stale>>
          \/ /\ list' = [list EXCEPT ![p] = Others(p, d)]
             /\ stale' = [stale EXCEPT ![p] = @ \cup ({d} \cap held)]
             /\ UNCHANGED <<doing, unseen>>
  /\ UNCHANGED <<files, op, call, stamp, toll, damaged>>

(* A .dict file goes, whatever is in it by now. *)
Removes(p, d) ==
  /\ held' = held \ {d}
  /\ whole' = whole \ {d}
  /\ used' = [used EXCEPT ![d] = 0]
  /\ opened' = {q \in opened : id[q] # d}
  /\ damaged' = damaged \ {d}
  /\ Disturbs(Procs \ {p}, d)
  /\ UNCHANGED <<temps, clock, last, late>>

(* The file that did not hash to its name is removed by that name, or it stays. *)
Discard(p) ==
  /\ doing[p] = "removing"
  /\ Removes(p, id[p]) \/ UNCHANGED <<files, stale, damaged>>
  /\ Goes(p, "trying")
  /\ UNCHANGED <<place, scan>>

-----------------------------------------------------------------------------
(* touch, of the file that was loaded or stored; nobody asks whether it went well *)

ReadClock(p) ==
  /\ doing[p] = "touching"
  /\ clock' = clock + 1
  /\ stamp' = [stamp EXCEPT ![p] = clock + 1]
  /\ last' = [last EXCEPT ![id[p]] = clock + 1]
  /\ late' = late \cup {id[p]}
  /\ Goes(p, "opening")
  /\ UNCHANGED <<held, whole, used, temps, opened, op, id, call, toll, scan, stale, damaged>>

(* newest returns; store goes on to list what there is to prune. *)
Touched(p) ==
  /\ stamp' = [stamp EXCEPT ![p] = 0]
  /\ \/ op[p] = "newest" /\ Returns(p) /\ UNCHANGED scan
     \/ op[p] = "store" /\ Goes(p, "listing") /\ Listing(p) /\ UNCHANGED op
  /\ UNCHANGED <<held, whole, temps, clock, last, id, call, toll, damaged>>

Open(p) ==
  /\ doing[p] = "opening"
  /\ id[p] \in held
  /\ opened' = opened \cup {p}
  /\ Goes(p, "stamping")
  /\ UNCHANGED <<held, whole, used, temps, clock, last, late, place, scan, stale, damaged>>

(* The file is gone, or may not be opened or stamped; or it is stamped, but what has its
   name by now is another. *)
TouchFails(p) ==
  /\ doing[p] \in {"opening", "stamping"}
  /\ opened' = opened \ {p}
  /\ Touched(p)
  /\ UNCHANGED <<used, late, stale>>

(* The time is set.  When another use has read a later one since, the file may have had
   that already, and loses it. *)
SetTimes(p) ==
  /\ doing[p] = "stamping"
  /\ p \in opened
  /\ opened' = opened \ {p}
  /\ used' = [used EXCEPT ![id[p]] = Stamped(p)]
  /\ late' = IF stamp[p] = last[id[p]] THEN late \ {id[p]} ELSE late \cup {id[p]}
  /\ Touched(p)
  /\ Disturbs(Procs, id[p])

-----------------------------------------------------------------------------
(* store *)

(* fs::write creates the temporary file, or empties the one of that name. *)
Create(p) ==
  /\ doing[p] = "create"
  /\ temps' = With(temps, Temp(p), 0)
  /\ Goes(p, "filling")
  /\ UNCHANGED <<held, whole, used, clock, opened, last, late, place, scan, stale, damaged>>

(* The file's time comes from a clock that may be a tick behind. *)
Fill(p) ==
  /\ doing[p] = "filling"
  /\ \E t \in {clock - 1, clock} : temps' = With(temps, Temp(p), t)
  /\ Goes(p, "rename")
  /\ UNCHANGED <<held, whole, used, clock, opened, last, late, place, scan, stale, damaged>>

Unswept(p) == temps    \* mutant: a store that fails leaves its file

Swept(p) == Without(temps, Temp(p))

(* The file system refuses: what there is of the temporary file is removed, unless that
   is refused as well. *)
StoreFails(p) ==
  /\ doing[p] \in {"create", "filling", "rename"}
  /\ \/ temps' = Swept(p) /\ UNCHANGED littered
     \/ Mishap /\ Temp(p) \in DOMAIN temps /\ littered' = littered + 1 /\ UNCHANGED temps
  /\ call' = [call EXCEPT ![p] = 0]
  /\ Returns(p)
  /\ UNCHANGED <<held, whole, used, clock, opened, last, late, id, stamp, calls, crashes, spared,
                 scan, stale, damaged>>

(* The rename replaces whatever had the name, at once; the file keeps its time, which a
   load of what it replaces may have passed. *)
Rename(p) ==
  /\ doing[p] = "rename"
  /\ Temp(p) \in DOMAIN temps
  /\ LET d == id[p]
         t == temps[Temp(p)]
     IN  /\ held' = held \cup {d}
         /\ whole' = IF t > 0 THEN whole \cup {d} ELSE whole \ {d}
         /\ used' = [used EXCEPT ![d] = t]
         /\ opened' = {q \in opened : id[q] # d}
         /\ last' = [last EXCEPT ![d] = IF t > @ THEN t ELSE @]
         /\ late' = IF t >= last[d] THEN late \ {d} ELSE late \cup {d}
         /\ damaged' = damaged \ {d}
         /\ Disturbs(Procs, d)
  /\ temps' = Without(temps, Temp(p))
  /\ call' = [call EXCEPT ![p] = 0]
  /\ Goes(p, "touching")
  /\ UNCHANGED <<clock, op, id, stamp, toll, scan>>

(* The next of what the listing says is past KEEP is removed, or stays. *)
Prune(p) ==
  /\ doing[p] = "pruning"
  /\ \E d \in Ids :
       /\ First(p, d)
       /\ list' = [list EXCEPT ![p] = Without(@, d)]
       /\ \/ Removes(p, d) /\ UNCHANGED spared
          \/ /\ Mishap
             /\ d \in held
             /\ spared' = spared + 1
             /\ UNCHANGED <<files, stale, damaged>>
  /\ UNCHANGED <<doing, op, id, call, stamp, calls, crashes, littered, unseen>>

Stored(p) ==
  /\ doing[p] = "pruning"
  /\ DOMAIN list[p] = {}
  /\ Returns(p)
  /\ Looked(p)
  /\ UNCHANGED <<files, id, call, stamp, toll, damaged>>

-----------------------------------------------------------------------------

Crash(p) ==
  /\ doing[p] # "idle"
  /\ Mishap
  /\ crashes' = crashes + 1
  /\ opened' = opened \ {p}
  /\ stamp' = [stamp EXCEPT ![p] = 0]
  /\ call' = [call EXCEPT ![p] = 0]
  /\ Returns(p)
  /\ Looked(p)
  /\ UNCHANGED <<held, whole, used, temps, clock, last, late, id, calls, littered, spared, damaged>>

(* Something else changes the bytes in a file. *)
Damage(d) ==
  /\ d \in held
  /\ Cardinality(damaged) < MaxDamage
  /\ whole' = whole \ {d}
  /\ damaged' = damaged \cup {d}
  /\ Disturbs(Procs, d)
  /\ UNCHANGED <<held, used, temps, clock, opened, last, late, place, scan, doing>>

Step(p) ==
  \/ Newest(p) \/ Store(p) \/ List(p) \/ ListFails(p) \/ Listed(p)
  \/ NoneLeft(p) \/ Load(p) \/ Discard(p)
  \/ ReadClock(p) \/ Open(p) \/ TouchFails(p) \/ SetTimes(p)
  \/ Create(p) \/ Fill(p) \/ StoreFails(p) \/ Rename(p) \/ Prune(p) \/ Stored(p)
  \/ Crash(p)

CacheNext == (\E p \in Procs : Step(p)) \/ (\E d \in Ids : Damage(d))

CacheSpec == CacheInit /\ [][CacheNext]_cacheVars

-----------------------------------------------------------------------------
(* Properties *)

Writing(p) == doing[p] \in {"filling", "rename"}

(* A store between its rename and the end of its prune. *)
ToPrune(p) ==
  op[p] = "store" /\ doing[p] \in {"touching", "opening", "stamping", "listing", "pruning"}

(* Whatever dies, and however many connections store the same dictionary at once,
   a .dict file no one else damaged is the whole dictionary (dictcache.rs:152-171). *)
PublishedWhole == held \ damaged \subseteq whole

(* A store keeps the temporary file it writes, and a call that has ended leaves none it
   was not refused to remove: there are as many as stores under way, processes that died
   and such refusals (dictcache.rs:164-175). *)
NoLitter ==
  /\ \A p \in Procs : Writing(p) => Temp(p) \in DOMAIN temps
  /\ Cardinality(DOMAIN temps) <=
       Cardinality({p \in Procs : Writing(p)}) + crashes + littered

(* With no lock between them, processes that store leave no more than KEEP, one for
   each that has yet to prune, one for each that died before it did, and one for each
   time a prune was refused a name or a removal (dictcache.rs:182, 206-216). *)
KeepsFew ==
  Cardinality(held) <= Keep + crashes + spared + Cardinality({p \in Procs : ToPrune(p)})

(* newest returns a dictionary that no other intact one was stored or loaded after, of
   those whose file has the time of that and whose listing nothing has disturbed since
   (dictcache.rs:108-120, 172-181). *)
NewestIsLatest ==
  [][\A p \in Procs :
       doing[p] = "trying" /\ doing'[p] = "touching" =>
         \A d \in whole \ (stale[p] \cup late) : last[d] <= last[id'[p]]]_cacheVars

(* newest returns none only when every intact dictionary is one that the file system
   refused, or another process changed, since it began to list (dictcache.rs:117-119). *)
NewestFinds ==
  \A p \in Procs : doing[p] = "trying" /\ DOMAIN list[p] = {} => whole \subseteq stale[p]

(* A file another process left alone since it was listed is removed only when it was
   found damaged and still is, or when KEEP others, there or taken away by another,
   were used after it (dictcache.rs:128-138, 206-216). *)
RemovesOnlySpent ==
  [][\A p \in Procs : \A d \in (held \ held') \ stale[p] :
       /\ doing[p] = "removing" /\ doing'[p] = "trying" => d \notin whole
       /\ doing[p] = "pruning" /\ DOMAIN list'[p] # DOMAIN list[p] /\ d \notin late =>
            Cardinality({e \in (held \cup stale[p]) \ {d} : last[e] >= last[d]}) >= Keep]_cacheVars

=============================================================================
