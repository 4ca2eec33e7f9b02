----------------------------- MODULE WikiIndex -----------------------------
(* The wiki's files (crates/danso-wiki): the index, which another tool builds *)
(* and copies here, the local cache of its parsed form, and the pages.        *)
(*                                                                            *)
(* Nothing here writes the index: the tool that does is a part of the         *)
(* environment.  It replaces the files one by one, by name, so the metadata   *)
(* come last.  Searches run beside it and beside each other, each in a        *)
(* process of its own.                                                        *)
EXTENDS Naturals, Sequences, FiniteSets

CONSTANTS Readers,                \* processes, by their numbers
          SizeOf,                 \* [versions of the index -> the size of its files]
          MaxVersion, MaxSearches, MaxKilled  \* bounds of the instance

ASSUME IndexAssumption ==
    /\ {MaxVersion, MaxSearches, MaxKilled} \subseteq Nat
    /\ SizeOf \in [0..MaxVersion -> Nat]

VARIABLES
    source,     \* [file of the index -> its version]
    cacheFile,  \* "absent", or the parsed index with its key
    litter,     \* readers that left a temporary file in the cache directory
    reader,     \* [Readers -> what its process does]
    searches, killed
indexVars == <<source, cacheFile, litter, reader, searches, killed>>

IndexFiles == <<"chunks", "corpus_stats", "manifest", "meta">>
NoCacheFile == [key |-> <<>>, meta |-> 0, manifest |-> 0, chunks |-> 0]
Resting == [at |-> "resting", key |-> <<>>, meta |-> 0, manifest |-> 0, chunks |-> 0]

IndexInit ==
    /\ source = [f \in {IndexFiles[i] : i \in 1..4} |-> 0]
    /\ cacheFile = NoCacheFile /\ litter = {}
    /\ reader = [r \in Readers |-> Resting] /\ searches = 0 /\ killed = 0

Moves(r, to) == reader' = [reader EXCEPT ![r] = to]
Works(r, at) == reader[r].at = at

------------------------------------------------------------------------------
(* The tool that builds and copies.                                           *)

\* The next file of a copy, or the first one of the next version.
SourcesSettled == \A f, g \in DOMAIN source : source[f] = source[g]
CopyIndexFile ==
    /\ \E i \in 1..4 :
          /\ \A k \in 1..4 : k < i => source[IndexFiles[k]] > source[IndexFiles[i]]
          /\ \A k \in 1..4 : k > i => source[IndexFiles[k]] = source[IndexFiles[i]]
          /\ source[IndexFiles[i]] < MaxVersion
          /\ source' = [source EXCEPT ![IndexFiles[i]] = @ + 1]
    /\ UNCHANGED <<cacheFile, litter, reader, searches, killed>>

------------------------------------------------------------------------------
(* find: the index, from the cache when its key is the sources'.              *)

\* source_key: when the index was built, from its metadata, and the sizes of its
\* files; the metadata are read first.
BuiltAt == <<source["meta"]>>
WithSizes(key) ==
    key \o <<SizeOf[source["meta"]], SizeOf[source["manifest"]], SizeOf[source["chunks"]]>>
CurrentKey == WithSizes(BuiltAt)

FindStarts(r) ==
    /\ Works(r, "resting") /\ searches < MaxSearches /\ searches' = searches + 1
    /\ Moves(r, [Resting EXCEPT !.at = "keyed", !.key = BuiltAt])
    /\ UNCHANGED <<cacheFile, litter, killed, source>>

\* load_index: the cache is used when it can be read and has this key, unless a
\* refresh was asked for; otherwise it is built, under a key of its own.
LoadIndex(r, refresh) ==
    /\ Works(r, "keyed")
    /\ LET key == WithSizes(reader[r].key)
       IN IF ~refresh /\ cacheFile.key = key
          THEN Moves(r, [reader[r] EXCEPT !.at = "answering", !.meta = cacheFile.meta,
                             !.manifest = cacheFile.manifest, !.chunks = cacheFile.chunks])
          ELSE Moves(r, [Resting EXCEPT !.at = "building", !.key = BuiltAt])
    /\ UNCHANGED <<cacheFile, litter, searches, killed, source>>

\* Mutant of Build: the key comes last.
BuildKeyLast(r) ==
    \/ /\ Works(r, "building") /\ Moves(r, [reader[r] EXCEPT !.at = "meta"])
    \/ /\ Works(r, "meta") /\ Moves(r, [reader[r] EXCEPT !.at = "manifest", !.meta = source["meta"]])
    \/ /\ Works(r, "manifest") /\ Moves(r, [reader[r] EXCEPT !.at = "chunks", !.manifest = source["manifest"]])
    \/ /\ Works(r, "chunks")
       /\ Moves(r, [reader[r] EXCEPT !.at = "writing", !.chunks = source["chunks"], !.key = CurrentKey])
\* build: the key, then the metadata, the manifest and the chunks.
Build(r) ==
    \/ /\ Works(r, "building") /\ Moves(r, [reader[r] EXCEPT !.at = "meta", !.key = WithSizes(@)])
    \/ /\ Works(r, "meta") /\ Moves(r, [reader[r] EXCEPT !.at = "manifest", !.meta = source["meta"]])
    \/ /\ Works(r, "manifest") /\ Moves(r, [reader[r] EXCEPT !.at = "chunks", !.manifest = source["manifest"]])
    \/ /\ Works(r, "chunks") /\ Moves(r, [reader[r] EXCEPT !.at = "writing", !.chunks = source["chunks"]])
BuildStep(r) == Build(r) /\ UNCHANGED <<cacheFile, litter, searches, killed, source>>

\* The parsed index goes into a new file named for the process, then in place:
\* a file some process of that number left there fails the search.
WriteCache(r) ==
    /\ Works(r, "writing")
    /\ IF r \in litter THEN Moves(r, Resting)
       ELSE Moves(r, [reader[r] EXCEPT !.at = "renaming"])
    /\ UNCHANGED <<cacheFile, litter, searches, killed, source>>
RenameCache(r) ==
    /\ Works(r, "renaming") /\ Moves(r, [reader[r] EXCEPT !.at = "answering"])
    /\ cacheFile' = [key |-> reader[r].key, meta |-> reader[r].meta,
                     manifest |-> reader[r].manifest, chunks |-> reader[r].chunks]
    /\ UNCHANGED <<litter, searches, killed, source>>
Answer(r) ==
    /\ Works(r, "answering") /\ Moves(r, Resting)
    /\ UNCHANGED <<cacheFile, litter, searches, killed, source>>

\* A process is killed: its locks go with it, its temporary file stays.
Kill(r) ==
    /\ ~Works(r, "resting") /\ killed < MaxKilled /\ killed' = killed + 1
    /\ litter' = IF Works(r, "renaming") THEN litter \cup {r} ELSE litter
    /\ Moves(r, Resting)
    /\ UNCHANGED <<source, cacheFile, searches>>

IndexNext ==
    \/ CopyIndexFile
    \/ \E r \in Readers :
          \/ FindStarts(r) \/ (\E refresh \in BOOLEAN : LoadIndex(r, refresh))
          \/ BuildStep(r) \/ WriteCache(r) \/ RenameCache(r) \/ Answer(r) \/ Kill(r)

IndexSpec == IndexInit /\ [][IndexNext]_indexVars

------------------------------------------------------------------------------
\* "Stale means rebuild": when a copy of the index is complete and the cache's
\* key is its key, the cache holds that index and no part of another, although
\* nothing keeps the sources still while they are read and two versions may have
\* files of one size (cache.rs).
FreshIsTrue ==
    SourcesSettled /\ cacheFile.key = CurrentKey =>
        /\ cacheFile.meta = source["meta"] /\ cacheFile.manifest = source["manifest"]
        /\ cacheFile.chunks = source["chunks"]

------------------------------------------------------------------------------
(* Loading pages of the wiki (crates/danso-wiki/src/load.rs): several pages   *)
(* at once, beside the tool that copies them here, and the record of what was *)
(* loaded.                                                                    *)
(*                                                                            *)
(* The tool replaces the pages one by one under the exclusive lock; a load    *)
(* holds it shared until it ends, or goes on without it where there is no     *)
(* lock to be had.  Each load is a process of its own.                        *)

CONSTANTS Loaders, Pages,
          StatsCap,                        \* lines the access file may hold
          Ttl,                             \* days a line is kept
          MaxPageGeneration, MaxLoads, MaxDay \* bounds of the instance

ASSUME PagesAssumption ==
    {MaxPageGeneration, MaxLoads, MaxDay} \subseteq Nat /\ {StatsCap, Ttl} \subseteq Nat \ {0}

VARIABLES
    pageAt,     \* [Pages -> its generation]
    syncing,    \* pages still to be replaced; the exclusive lock is held while there are any
    loader,     \* [Loaders -> what its process does]
    today,
    stats,      \* the lines of the access file, each known by when it was written: first, second...
    recorded,   \* the days on all lines ever written, oldest line first
    unread,     \* lines that could not be read when the file was written anew
    loads
pagesVars == <<pageAt, syncing, loader, today, stats, recorded, unread, loads>>

NotLoading == [at |-> "resting", locked |-> FALSE, left |-> {}, got |-> {},
               kept |-> {}, missed |-> {}, day |-> 0]
PagesInit ==
    /\ pageAt = [p \in Pages |-> 0] /\ syncing = {}
    /\ loader = [r \in Loaders |-> NotLoading] /\ today = 0
    /\ stats = {} /\ recorded = <<>> /\ unread = {} /\ loads = 0

Turns(r, to) == loader' = [loader EXCEPT ![r] = to]

SharedHolders == {r \in Loaders : loader[r].locked}
SyncPages ==
    /\ syncing = {} /\ SharedHolders = {}
    /\ \A p \in Pages : pageAt[p] < MaxPageGeneration
    /\ syncing' = Pages
    /\ UNCHANGED <<pageAt, loader, today, stats, recorded, unread, loads>>
CopyPage(p) ==
    /\ p \in syncing
    /\ pageAt' = [pageAt EXCEPT ![p] = @ + 1] /\ syncing' = syncing \ {p}
    /\ UNCHANGED <<loader, today, stats, recorded, unread, loads>>

\* shared_cache_lock: the lock, or, without a home, a directory or a file for it,
\* none.  A load that cannot have it within its time ends without reading.
LoadStarts(r, pages) ==
    /\ loader[r].at = "resting" /\ loads < MaxLoads /\ loads' = loads + 1
    /\ \/ \E locked \in BOOLEAN :
            /\ locked => syncing = {}
            /\ Turns(r, [NotLoading EXCEPT !.at = "loading", !.locked = locked, !.left = pages])
       \/ syncing # {} /\ UNCHANGED loader
    /\ UNCHANGED <<pageAt, syncing, today, stats, recorded, unread>>

LoadPage(r, p) ==
    /\ loader[r].at = "loading" /\ p \in loader[r].left
    /\ Turns(r, [loader[r] EXCEPT !.left = @ \ {p}, !.got = @ \cup {pageAt[p]}])
    /\ UNCHANGED <<pageAt, syncing, today, stats, recorded, unread, loads>>

\* record_load_access: the pages have been shown; the time first, then the lock
\* of the access file.
ReadClock(r) ==
    /\ loader[r].at = "loading" /\ loader[r].left = {}
    /\ Turns(r, [loader[r] EXCEPT !.at = "dated", !.got = {}, !.day = today])
    /\ UNCHANGED <<pageAt, syncing, today, stats, recorded, unread, loads>>

\* rewrite_stats: the lines that are legible, none of a file that is not.
Recorder == {r \in Loaders : loader[r].at = "recording"}
ReadStats(r, legible) ==
    /\ loader[r].at = "dated" /\ Recorder = {}
    /\ Turns(r, [loader[r] EXCEPT !.at = "recording", !.kept = legible,
                                 !.missed = stats \ legible])
    /\ UNCHANGED <<pageAt, syncing, today, stats, recorded, unread, loads>>
\* The file is replaced: without the lines that are too old, with one more, and
\* without the oldest while there are too many.
LatestOf(lines, n) == {i \in lines : Cardinality({k \in lines : k > i}) < n}
ReplaceStats(r) ==
    /\ loader[r].at = "recording"
    /\ LET inTime == {i \in loader[r].kept : recorded[i] + Ttl >= loader[r].day}
       IN stats' = LatestOf(inTime \cup {Len(recorded) + 1}, StatsCap)
    /\ recorded' = Append(recorded, loader[r].day)
    /\ unread' = unread \cup loader[r].missed
    /\ Turns(r, NotLoading)
    /\ UNCHANGED <<pageAt, syncing, today, loads>>

\* A load ends without a line: nobody asked for one, a page cannot be read, a lock
\* or a write fails, or the process is killed.  Its locks go with it; a temporary
\* file that stays has a name nobody takes again.
LoadEnds(r) ==
    /\ loader[r].at # "resting"
    /\ Turns(r, NotLoading)
    /\ UNCHANGED <<pageAt, syncing, today, stats, recorded, unread, loads>>

DayPasses ==
    /\ today < MaxDay /\ today' = today + 1
    /\ UNCHANGED <<pageAt, syncing, loader, stats, recorded, unread, loads>>

PagesNext ==
    \/ SyncPages \/ (\E p \in Pages : CopyPage(p)) \/ DayPasses
    \/ \E r \in Loaders :
          \/ (\E pages \in SUBSET Pages \ {{}} : LoadStarts(r, pages))
          \/ (\E p \in Pages : LoadPage(r, p)) \/ ReadClock(r)
          \/ (\E legible \in SUBSET stats : ReadStats(r, legible)) \/ ReplaceStats(r) \/ LoadEnds(r)

PagesSpec == PagesInit /\ [][PagesNext]_pagesVars

------------------------------------------------------------------------------
\* The pages a load reads under the lock are of one generation (load.rs: "a
\* concurrent sync cannot swap pages mid-read"); of a load that goes on without it
\* nothing is claimed.
LoadsWhole == \A r \in Loaders : loader[r].locked => Cardinality(loader[r].got) <= 1

\* No load loses its line to another load: a line is there unless it could not be
\* read, StatsCap later ones were written, or one that was written more than Ttl
\* days later; and every line that is there was in time when the latest was written.
Outlived(i) == \E k \in (i + 1)..Len(recorded) : recorded[i] + Ttl < recorded[k]
AccessesKept ==
    /\ \A i \in 1..Len(recorded) :
          i \in stats \cup unread \/ i + StatsCap <= Len(recorded) \/ Outlived(i)
    /\ \A i \in stats : recorded[i] + Ttl >= recorded[Len(recorded)]
    /\ Cardinality(stats) <= StatsCap

PagesSound == LoadsWhole /\ AccessesKept

\* What a search takes for fresh is, and pages and their record are kept as said
\* (cache.rs, load.rs).
IndexSound == FreshIsTrue /\ PagesSound
=============================================================================
