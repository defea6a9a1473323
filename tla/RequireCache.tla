--------------------------- MODULE RequireCache ---------------------------
(***************************************************************************)
(* The required files of src/v8runner.cpp: _requireCache, which loadLibs   *)
(* fills, a script's require reads and updateRequireCache changes, and the *)
(* files on the disk behind it.  _requireCacheMutex is a reader-writer     *)
(* lock; require holds its shared side for as long as the file runs, which *)
(* may require others, so a thread may hold it more than once.             *)
(*                                                                         *)
(* The path of a file, below the directory the node is given, is the       *)
(* sequence of its parts, and so is the name it has in the cache.          *)
(***************************************************************************)
EXTENDS Integers, Sequences

CONSTANTS Threads,     \* the threads that may run scripts
          Files,       \* the paths of the files that may be there
          Root,        \* the last part of _pathToLibs
          MaxVersion,  \* bound: how often a file is written
          MaxRequires, \* bound: how many files one script requires
          NoName, NoFile

ASSUME FilesAssumption == Files \subseteq Seq(STRING) /\ <<>> \notin Files
ASSUME NoFileAssumption == NoFile \notin [file : Files, version : Nat]
ASSUME BoundsAssumption == MaxVersion \in Nat \ {0} /\ MaxRequires \in Nat

VARIABLES
  disk,    \* is each file there, and which version of it
  cache,   \* _requireCache: what each name holds
  wants,   \* the name each thread has called require with
  left,    \* how many more files its script may require
  inside,  \* the files each thread is running, the innermost last
  upc,     \* where the dispatcher is, the one thread that updates
  update   \* the name it updates, and what it has read

cacheVars == <<disk, cache, wants, left, inside, upc, update>>

\* loadLibs takes the last two parts of the whole path for the name.
LoadName(f) == LET path == <<Root>> \o f
               IN  SubSeq(path, Len(path) - 1, Len(path))

Names == Files \cup {LoadName(f) : f \in Files}

ASSUME NoNameAssumption == NoName \notin Names

\* _readFile: what is on the disk under that path, if anything.
ReadFile(n) == IF n \in Files /\ disk[n].there
               THEN [file |-> n, version |-> disk[n].version] ELSE NoFile

\* Files of one name replace each other in the order the directories are read in.
LoadLibs == cache \in {c \in [Names -> {ReadFile(f) : f \in Files} \cup {NoFile}] :
                         \A n \in Names :
                           LET found == {ReadFile(f) : f \in {g \in Files : LoadName(g) = n}} \ {NoFile}
                           IN  IF found = {} THEN c[n] = NoFile ELSE c[n] \in found}

CacheInit == /\ disk \in [Files -> [there : BOOLEAN, version : {1}]]
             /\ LoadLibs
             /\ wants = [t \in Threads |-> NoName]
             /\ left = [t \in Threads |-> MaxRequires]
             /\ inside = [t \in Threads |-> <<>>]
             /\ upc = "idle" /\ update = <<>>

\* Somebody writes the file, or takes it away or puts it back (external).
EditFile(f) ==
  /\ \/ disk' = [disk EXCEPT ![f].there = ~ @]
     \/ /\ disk[f].version < MaxVersion
        /\ disk' = [disk EXCEPT ![f].version = @ + 1]
  /\ UNCHANGED <<cache, wants, left, inside, upc, update>>

-----------------------------------------------------------------------------
\* _Require, called by a script or by a file that is itself required.

Require(t, n) == /\ wants[t] = NoName
                 /\ left[t] > 0
                 /\ left' = [left EXCEPT ![t] = @ - 1]
                 /\ wants' = [wants EXCEPT ![t] = n]
                 /\ UNCHANGED <<disk, cache, inside, upc, update>>

\* Mutant: the lock lets nobody pass a writer that waits.
WritersFirst == upc \notin {"lock", "store"}

\* The shared side of _requireCacheMutex is to be had: nobody holds the other.  The
\* lock of this build (libstdc++ on pthread_rwlock) does not ask who waits.
Shareable == upc # "store"

\* The file is found, compiled and run, all under the shared lock.
Enter(t) == /\ wants[t] \in Names /\ cache[wants[t]] # NoFile
            /\ Shareable
            /\ inside' = [inside EXCEPT ![t] = Append(@, [name |-> wants[t],
                                                          content |-> cache[wants[t]]])]
            /\ wants' = [wants EXCEPT ![t] = NoName]
            /\ UNCHANGED <<disk, cache, left, upc, update>>

\* "Error opening file": an exception in the script that asked.
NotFound(t) == /\ wants[t] \in Names /\ cache[wants[t]] = NoFile
               /\ Shareable
               /\ wants' = [wants EXCEPT ![t] = NoName]
               /\ UNCHANGED <<disk, cache, left, inside, upc, update>>

\* The innermost file ends: it did not compile, threw, was terminated, or is done.
Leave(t) == /\ inside[t] # <<>> /\ wants[t] = NoName
            /\ inside' = [inside EXCEPT ![t] = SubSeq(@, 1, Len(@) - 1)]
            /\ UNCHANGED <<disk, cache, wants, left, upc, update>>

\* The script is over; the next one may require as many.
EndScript(t) == /\ wants[t] = NoName /\ inside[t] = <<>>
                /\ left' = [left EXCEPT ![t] = MaxRequires]
                /\ UNCHANGED <<disk, cache, wants, inside, upc, update>>

-----------------------------------------------------------------------------
\* updateRequireCache, called by the dispatcher.

\* Mutant: the error of _getRequireFile is not looked at.
NeverFailed(content) == FALSE

Failed(content) == content = NoFile

\* The file is read before the lock is taken; if it cannot be, that is all.
ReadUpdate(n) == /\ upc = "idle"
                 /\ IF Failed(ReadFile(n)) THEN UNCHANGED <<upc, update>>
                    ELSE upc' = "lock" /\ update' = [name |-> n, content |-> ReadFile(n)]
                 /\ UNCHANGED <<disk, cache, wants, left, inside>>

\* Mutant: require lets the lock go once it has found the file.
AtAnyTime == upc # "store"

\* The unique side of _requireCacheMutex is free.
Exclusive == \A t \in Threads : inside[t] = <<>>

LockCache == /\ upc = "lock" /\ upc' = "store"
             /\ Exclusive
             /\ UNCHANGED <<disk, cache, wants, left, inside, update>>

Store == /\ upc = "store" /\ upc' = "idle"
         /\ cache' = [cache EXCEPT ![update.name] = update.content]
         /\ update' = <<>>
         /\ UNCHANGED <<disk, wants, left, inside>>
===========================================================================
