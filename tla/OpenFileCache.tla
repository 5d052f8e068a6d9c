--------------------------- MODULE OpenFileCache ---------------------------
(***************************************************************************)
(* The cache of open files, core/ngx_open_file_cache.c, of one worker, and *)
(* the requests that use it.  An entry is known by the name of its file    *)
(* and holds a descriptor, or the fact that the name is a directory, or    *)
(* the error of the last attempt.  A call is one step of the worker, but   *)
(* the names of the file system belong to everybody: they change between   *)
(* the calls, and between the stat and the open of one call.               *)
(*                                                                         *)
(* The platform is one without events of vnodes (epoll): there             *)
(* ngx_open_file_add_event returns at its first test, file->event is NULL  *)
(* and use_event is 0 for ever (ngx_open_file_cache.c:967).  Times are     *)
(* kept as ages, up to the age from which no test tells them apart.        *)
(***************************************************************************)
EXTENDS Integers, FiniteSets, SequencesExt

CONSTANTS
  Names, Inodes,   \* names of files, and the numbers that identify them
  None,            \* what a name without a file is
  Requests,        \* those who open files, each holds one at a time
  Entries,         \* places for entries, enough for those held and cached
  MaxFd,           \* descriptors of the process: 1..MaxFd, 0 is invalid
  MaxFiles,        \* cache->max
  Valid,           \* of->valid, in seconds
  Inactive,        \* cache->inactive, in seconds
  MinUses,         \* the values of of->min_uses
  Wanted           \* the values of of->uniq, 0 for none

ASSUME OpenFileCacheAssumption ==
  /\ MaxFiles \in Nat \ {0} /\ Valid \in Nat /\ Inactive \in Nat /\ MaxFd \in Nat
  /\ IsFiniteSet(Entries) /\ IsFiniteSet(Requests)
  /\ Cardinality(Entries) >= MaxFiles + Cardinality(Requests)
  /\ MinUses \subseteq Nat \ {0} /\ MinUses # {} /\ IsFiniteSet(MinUses)
  /\ Inodes \cap {0, None} = {} /\ Wanted \subseteq Inodes \cup {0}
  /\ None \notin Names \cup Entries \cup [ino : Inodes, dir : BOOLEAN]

VARIABLES
  disk,     \* what each name is at the moment
  st,       \* entries, tree, queue (head first), count and descriptors
  held,     \* what each request got from the cache
  lost,     \* history: descriptors that the cache forgot to close
  exited    \* the pool of the cycle has been destroyed

cacheVars == << disk, st, held, lost, exited >>

Nothing == [entry |-> None, fd |-> 0, ino |-> 0, minUses |-> 0]
Free    == [name |-> None, fd |-> 0, uniq |-> 0, err |-> FALSE, dir |-> FALSE,
            uses |-> 0, count |-> 0, close |-> FALSE, created |-> 0, accessed |-> 0]
Closed  == [name |-> None, ino |-> 0, stale |-> 0]
Fds     == 1..MaxFd

Contents == {None} \cup [ino : Inodes, dir : BOOLEAN]

(* Caps: from there on no test of the code tells two values apart. *)
UsesCap == Max(MinUses)
AgeCap  == Inactive + 1
Aged(age, cap) == IF age < cap THEN age + 1 ELSE age

CacheInit ==
  /\ disk \in [Names -> Contents]
  /\ \A m, n \in Names : disk[m] # None /\ disk[n] # None /\ disk[m].ino = disk[n].ino
                           => disk[m] = disk[n]
  /\ st = [file |-> [e \in Entries |-> Free], tree |-> {}, queue |-> << >>,
           current |-> 0, fds |-> [d \in Fds |-> Closed]]
  /\ held = [r \in Requests |-> Nothing]
  /\ lost = {} /\ exited = FALSE

-----------------------------------------------------------------------------
(* The file system, outside this code.  A number stays with its file as    *)
(* long as a name or a descriptor refers to it; then it may be used again. *)

Possible(n, c) ==
  c # None =>
    /\ \A m \in Names \ {n} : disk[m] # None /\ disk[m].ino = c.ino => disk[m] = c
    /\ c.dir => \A d \in Fds : st.fds[d].ino # c.ino

(* `stale` says for how long the name has not been the file of d. *)
Watched(fds, n, c) ==
  [d \in Fds |-> IF fds[d].name = n /\ c = [ino |-> fds[d].ino, dir |-> FALSE]
                 THEN [fds[d] EXCEPT !.stale = 0] ELSE fds[d]]

FreeFds == {d \in Fds : st.fds[d] = Closed}

Failure(err) == [ok |-> FALSE, err |-> err, fd |-> 0, uniq |-> 0, dir |-> FALSE]
Info(fd, c)  == [ok |-> TRUE, err |-> FALSE, fd |-> fd, uniq |-> c.ino, dir |-> c.dir]

(* open() and fstat() of a name that is c: no file or no descriptor left   *)
(* are errors, a failing fstat() is one that leaves of->err 0, and of a    *)
(* directory only the facts are kept.                                      *)
Opened(c) ==
  IF c = None \/ FreeFds = {} THEN {Failure(TRUE)}
  ELSE {Failure(FALSE), Info(IF c.dir THEN 0 ELSE Min(FreeFds), c)}

(* ngx_open_and_stat_file: the answers, each with what the name is by then. *)
OpenAndStat(n, fd, uniq, testDir) ==
  LET looks == fd # 0 \/ testDir
      same  == looks /\ disk[n] # None
                 /\ IF fd # 0 THEN disk[n].ino = uniq ELSE disk[n].dir
  IN  CASE looks /\ disk[n] = None -> {<< Failure(TRUE), None >>}
        [] same                    -> {<< Info(fd, disk[n]), disk[n] >>}
        [] OTHER -> UNION {Opened(c) \X {c} : c \in {c \in Contents : Possible(n, c)}}

(* The descriptors after such a call. *)
Table(n, of, c) ==
  Watched(IF of.fd \in FreeFds
          THEN [st.fds EXCEPT ![of.fd] = [name |-> n, ino |-> of.uniq, stale |-> 0]]
          ELSE st.fds, n, c)

-----------------------------------------------------------------------------
(* The lists.  S stands for the state in the middle of a call. *)

CloseFd(S, d) == IF d = 0 THEN S ELSE [S EXCEPT !.fds[d] = Closed]

(* ngx_queue_remove *)
Unqueued(queue, e) ==
  IF \E i \in DOMAIN queue : queue[i] = e
    THEN RemoveAt(queue, CHOOSE i \in DOMAIN queue : queue[i] = e)
    ELSE queue

Forget(S, e) == [S EXCEPT !.tree = @ \ {e}, !.current = @ - 1]

ToHead(S, e) == [S EXCEPT !.queue = << e >> \o @, !.file[e].accessed = 0]

(* The lookup has counted the use and taken the entry out of the queue. *)
Touched(S, e) ==
  [S EXCEPT !.file[e].uses = Aged(@, UsesCap), !.queue = Unqueued(@, e)]

(* Fault of CloseCached: an entry out of the tree is freed under its users. *)
CloseCachedInUse(S, e, minUses) ==
  LET f == S.file[e]
      T == IF f.close THEN S ELSE ToHead([S EXCEPT !.queue = Unqueued(@, e)], e)
      U == CloseFd(T, f.fd)
  IN  IF ~f.close /\ (f.count > 0 \/ f.uses >= minUses) THEN T
      ELSE IF f.close THEN [U EXCEPT !.file[e] = Free]
      ELSE [U EXCEPT !.file[e].fd = 0]

(* ngx_close_cached_file *)
CloseCached(S, e, minUses) ==
  LET f == S.file[e]
      T == IF f.close THEN S ELSE ToHead([S EXCEPT !.queue = Unqueued(@, e)], e)
      U == CloseFd(T, f.fd)
  IN  IF f.count > 0 \/ (~f.close /\ f.uses >= minUses) THEN T
      ELSE IF f.close THEN [U EXCEPT !.file[e] = Free]
      ELSE [U EXCEPT !.file[e].fd = 0]

(* One turn of the loop of ngx_expire_old_cached_files. *)
ExpireOne(S, forced) ==
  LET e == Last(S.queue)
      T == Forget([S EXCEPT !.queue = Front(@)], e)
  IN  IF S.queue = << >> \/ (~forced /\ S.file[e].accessed <= Inactive) THEN S
      ELSE IF S.file[e].err \/ S.file[e].dir THEN [T EXCEPT !.file[e] = Free]
      ELSE CloseCached([T EXCEPT !.file[e].close = TRUE], e, 0)

(* ngx_expire_old_cached_files: with n = 0 the oldest goes in any case.    *)
(* A turn that finds nothing stale leaves the same for the next.           *)
ExpireOld(S) == ExpireOne(ExpireOne(S, FALSE), FALSE)
ExpireForced(S) == ExpireOld(ExpireOne(S, TRUE))

(* From `update` to the end of ngx_open_cached_file. *)
Update(S, e, of) ==
  LET f == S.file[e]
  IN  ToHead([S EXCEPT !.file[e] =
        IF of.err THEN [f EXCEPT !.fd = of.fd, !.err = TRUE, !.created = 0]
        ELSE [f EXCEPT !.fd = of.fd, !.err = FALSE, !.created = 0, !.uniq = of.uniq,
                       !.close = FALSE, !.dir = of.dir,
                       !.count = IF of.dir THEN @ ELSE @ + 1]], e)

(* What the request has in the end: ngx_open_file_cleanup is registered    *)
(* for files only.                                                         *)
Answer(r, e, of, minUses) ==
  held' = IF of.err \/ of.dir THEN held
          ELSE [held EXCEPT ![r] = [entry |-> e, fd |-> of.fd, ino |-> of.uniq,
                                    minUses |-> minUses]]

(* `failed` with an entry: nobody finds it any more. *)
FailedEntry(S, e) ==
  LET T == Forget(S, e)
  IN  IF S.file[e].count = 0 THEN [CloseFd(T, S.file[e].fd) EXCEPT !.file[e] = Free]
      ELSE [T EXCEPT !.file[e].close = TRUE]

Unwelcome(of, errors) == ~of.ok /\ (~of.err \/ ~errors)

(* `create`.  The memory of an entry is not cleared: what `update` does    *)
(* not set after an error and a later call reads is whatever was there.    *)
Leftovers(of) ==
  IF of.err THEN [dir : BOOLEAN, uniq : Wanted \cup {0}] ELSE {[dir |-> of.dir, uniq |-> of.uniq]}

Create(S, r, n, of, minUses) ==
  LET T == IF S.current >= MaxFiles THEN ExpireForced(S) ELSE S
      e == CHOOSE x \in Entries : T.file[x] = Free
  IN  \/ /\ \E left \in Leftovers(of) :
              st' = Update([T EXCEPT
                      !.file[e] = [Free EXCEPT !.name = n, !.uses = 1,
                                               !.dir = left.dir, !.uniq = left.uniq],
                      !.tree = @ \cup {e}, !.current = @ + 1], e, of)
         /\ Answer(r, e, of, minUses)
      \/ st' = CloseFd(T, of.fd) /\ held' = held   \* no memory

-----------------------------------------------------------------------------
(* ngx_open_cached_file, by what the lookup finds. *)

Cached(n) == {e \in st.tree : st.file[e].name = n}

ClosedEarly(f) == f.fd = 0 /\ ~f.err /\ ~f.dir

(* Fault of Trusted: an entry is good for one second too long. *)
TrustedLonger(f, uniq) == uniq \in {0, f.uniq} /\ f.created <= Valid

Trusted(f, uniq) == uniq \in {0, f.uniq} /\ f.created < Valid

Hit(r, n) == \E e \in Cached(n), uniq \in Wanted, minUses \in MinUses :
  LET f == st.file[e]
      S == Touched(st, e)
  IN  /\ ~ClosedEarly(f) /\ Trusted(f, uniq)
      /\ st' = ToHead(IF f.err \/ f.dir THEN S ELSE [S EXCEPT !.file[e].count = @ + 1], e)
      /\ Answer(r, e, f, minUses)
      /\ UNCHANGED << disk, lost, exited >>

(* The descriptor was closed for too few uses, the entry kept. *)
Reopen(r, n) ==
  \E e \in Cached(n), testDir \in BOOLEAN, errors \in BOOLEAN, minUses \in MinUses :
    /\ ClosedEarly(st.file[e])
    /\ \E p \in OpenAndStat(n, 0, 0, testDir) :
         LET of == p[1]
             S  == Touched([st EXCEPT !.fds = Table(n, of, p[2])], e)
         IN  /\ IF Unwelcome(of, errors)
                THEN st' = FailedEntry(S, e) /\ held' = held
                ELSE st' = Update(S, e, of) /\ Answer(r, e, of, minUses)
             /\ disk' = [disk EXCEPT ![n] = p[2]]
    /\ UNCHANGED << lost, exited >>

(* The same kind as before, or an entry without a descriptor: the entry    *)
(* takes the new facts.                                                    *)
SameFile(f, of) == ~of.err /\ ~of.dir /\ ~f.err /\ ~f.dir /\ of.uniq = f.uniq
Fits(f, of)     == f.err \/ f.dir \/ SameFile(f, of)

(* The entry is too old, or of another file than the one asked for.        *)
Retest(r, n) ==
  \E e \in Cached(n), uniq \in Wanted, testDir \in BOOLEAN, errors \in BOOLEAN,
     minUses \in MinUses :
    LET f == st.file[e] IN
    /\ ~ClosedEarly(f) /\ ~Trusted(f, uniq)
    /\ \E p \in OpenAndStat(n, f.fd, f.uniq, testDir \/ f.dir) :
         LET of == p[1]
             S  == Touched([st EXCEPT !.fds = Table(n, of, p[2])], e)
         IN  /\ \/ /\ Unwelcome(of, errors)
                   /\ st' = FailedEntry(S, e) /\ held' = held
                \/ /\ ~Unwelcome(of, errors) /\ Fits(f, of)
                   /\ st' = Update(S, e, of) /\ Answer(r, e, of, minUses)
                \/ /\ ~Unwelcome(of, errors) /\ ~Fits(f, of) /\ f.count = 0
                   /\ st' = Update(CloseFd(S, f.fd), e, of) /\ Answer(r, e, of, minUses)
                \/ /\ ~Unwelcome(of, errors) /\ ~Fits(f, of) /\ f.count > 0
                   /\ Create([Forget(S, e) EXCEPT !.file[e].close = TRUE], r, n, of, minUses)
             /\ disk' = [disk EXCEPT ![n] = p[2]]
             /\ lost' = IF SameFile(f, of) THEN lost \cup ({f.fd} \ {of.fd}) ELSE lost
    /\ UNCHANGED exited

Miss(r, n) ==
  \E testDir \in BOOLEAN, errors \in BOOLEAN, minUses \in MinUses :
    /\ Cached(n) = {}
    /\ \E p \in OpenAndStat(n, 0, 0, testDir) :
         LET of == p[1]
             S  == [st EXCEPT !.fds = Table(n, of, p[2])]
         IN  /\ IF Unwelcome(of, errors) THEN st' = S /\ held' = held
                ELSE Create(S, r, n, of, minUses)
             /\ disk' = [disk EXCEPT ![n] = p[2]]
    /\ UNCHANGED << lost, exited >>

OpenCachedFile(r, n) ==
  held[r] = Nothing /\ (Hit(r, n) \/ Reopen(r, n) \/ Retest(r, n) \/ Miss(r, n))

(* The pool of the request is destroyed: ngx_open_file_cleanup. *)
Release(r) ==
  LET e == held[r].entry IN
  /\ held[r] # Nothing
  /\ st' = ExpireOld(CloseCached([st EXCEPT !.file[e].count = @ - 1], e, held[r].minUses))
  /\ held' = [held EXCEPT ![r] = Nothing]
  /\ UNCHANGED << disk, lost, exited >>

(* The pool of the cycle is destroyed: ngx_open_file_cache_cleanup closes  *)
(* what is in the queue, whoever uses it, and the process ends.            *)
Exit ==
  LET listed == ToSet(st.queue) IN
  /\ st' = [st EXCEPT
       !.file = [e \in Entries |-> IF e \in listed THEN Free ELSE @[e]],
       !.fds  = [d \in Fds |-> IF \E e \in listed : st.file[e].fd = d THEN Closed ELSE @[d]],
       !.tree = @ \ listed, !.current = @ - Len(st.queue), !.queue = << >>]
  /\ exited' = TRUE
  /\ UNCHANGED << disk, held, lost >>

(* Somebody creates, removes or renames files. *)
Change(n, c) ==
  /\ c # disk[n] /\ Possible(n, c)
  /\ disk' = [disk EXCEPT ![n] = c]
  /\ st' = [st EXCEPT !.fds = Watched(@, n, c)]
  /\ UNCHANGED << held, lost, exited >>

(* A second passes. *)
Older(f) ==
  IF f = Free THEN Free
  ELSE [f EXCEPT !.created = Aged(@, Valid), !.accessed = Aged(@, AgeCap)]

Staler(fd) ==
  IF fd = Closed THEN Closed
  ELSE [fd EXCEPT !.stale = IF disk[fd.name] = [ino |-> fd.ino, dir |-> FALSE] THEN 0
                            ELSE Aged(@, Valid)]

Tick ==
  /\ st' = [st EXCEPT !.file = [e \in Entries |-> Older(@[e])],
                      !.fds  = [d \in Fds |-> Staler(@[d])]]
  /\ UNCHANGED << disk, held, lost, exited >>

CacheNext ==
  /\ ~exited
  /\ \/ \E r \in Requests : Release(r) \/ \E n \in Names : OpenCachedFile(r, n)
     \/ \E n \in Names, c \in Contents : Change(n, c)
     \/ Tick
     \/ Exit

CacheSpec == CacheInit /\ [][CacheNext]_cacheVars

-----------------------------------------------------------------------------
File == [name : Names \cup {None}, fd : 0..MaxFd, uniq : Inodes \cup {0},
         err : BOOLEAN, dir : BOOLEAN, uses : 0..UsesCap,
         count : 0..Cardinality(Requests), close : BOOLEAN,
         created : 0..Valid, accessed : 0..AgeCap]

CacheTypeOK ==
  /\ disk \in [Names -> Contents]
  /\ st.file \in [Entries -> File]
  /\ st.fds \in [Fds -> [name : Names \cup {None}, ino : Inodes \cup {0}, stale : 0..Valid]]
  /\ lost \subseteq Fds /\ exited \in BOOLEAN

Live == {e \in Entries : st.file[e] # Free}
HoldersOf(e) == {r \in Requests : held[r].entry = e}

(* The tree and the queue have the same entries, `current` of them, no     *)
(* more than `max`, in any order of hits, replacements, expiries and       *)
(* failures (ngx_open_file_cache.h: "the number of nodes in the tree and   *)
(* the queue"), and no name is in the tree twice.                          *)
ListsAgree ==
  /\ ToSet(st.queue) = st.tree /\ IsInjective(st.queue)
  /\ st.current = Cardinality(st.tree) /\ st.current <= MaxFiles
  /\ \A e, f \in st.tree : st.file[e].name = st.file[f].name => e = f
  /\ st.tree \subseteq Live

(* An entry lives exactly as long as it is cached or somebody uses it, and *)
(* counts its users: memory is not freed under a request                   *)
(* (ngx_open_file_cache.c:1062), and not forgotten when the last one goes. *)
EntriesOutliveTheirUsers ==
  ~exited => \A e \in Entries :
    /\ st.file[e].count = Cardinality(HoldersOf(e))
    /\ e \in Live <=> (e \in st.tree \/ HoldersOf(e) # {})
    /\ e \in Live => (st.file[e].close <=> e \notin st.tree)

(* What a request reads from is open, and is the file it was given: the    *)
(* descriptor is not closed under it, and its number is not used again     *)
(* for another file.                                                       *)
HandlesStayOpen ==
  ~exited => \A r \in Requests : held[r] # Nothing =>
    st.fds[held[r].fd].ino = held[r].ino

(* Each open descriptor belongs to one live entry, which knows the file of *)
(* it, and closes it later.  The exception: a name that is another file    *)
(* when it is tested and the old one again when it is opened gives the     *)
(* entry a second descriptor, and nobody closes the first                  *)
(* (ngx_open_file_cache.c:317).                                            *)
DescriptorsAreOwned ==
  /\ \A d \in Fds : st.fds[d] # Closed /\ d \notin lost =>
       \E e \in Live :
         /\ st.file[e].fd = d /\ st.file[e].uniq = st.fds[d].ino
         /\ st.file[e].name = st.fds[d].name
         /\ \A x \in Live \ {e} : st.file[x].fd # d
  /\ \A e \in Live : st.file[e].fd # 0 =>
       /\ st.fds[st.file[e].fd] # Closed
       /\ ~st.file[e].err /\ ~st.file[e].dir

(* The lists agree, no entry or descriptor goes while somebody uses it,    *)
(* and none stays when nobody does.                                        *)
CacheIsSound ==
  /\ CacheTypeOK /\ ListsAgree /\ EntriesOutliveTheirUsers
  /\ HandlesStayOpen /\ DescriptorsAreOwned

(* A request never gets a file that its name has not been for `valid`      *)
(* seconds or more, although the number of a file, which is all that is    *)
(* compared, is used again after it is removed: the open descriptor keeps  *)
(* the number.                                                             *)
ServedFresh ==
  [][ \A r \in Requests : held[r] = Nothing /\ held'[r] # Nothing =>
        LET f == st'.fds[held'[r].fd] IN
        /\ f.name = st'.file[held'[r].entry].name
        /\ f.stale = 0 \/ f.stale < Valid ]_cacheVars
=============================================================================
