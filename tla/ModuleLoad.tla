----------------------------- MODULE ModuleLoad -----------------------------
(***************************************************************************)
(* Loading and unloading module records: module_create(),                 *)
(* module_name_from_path() and module_destroy() of a record whose thread  *)
(* never ran (src/src/broker/module.c).                                    *)
(*                                                                         *)
(* The broker calls module_create() any number of times, with an artifact *)
(* (the DSO at a path) and an optional name.  Each call either returns a  *)
(* record holding one dlopen() reference of its artifact, or fails with   *)
(* an errno and an error message after releasing what it acquired.  The   *)
(* broker later destroys the records it keeps.                             *)
(*                                                                         *)
(* Strings the properties look into (paths, names) are sequences of       *)
(* one-character strings; the dynamic loader's reference count per        *)
(* artifact is a number.  Allocation and socket failures are inputs: the  *)
(* first failing step of a call is chosen from Failures.                   *)
(***************************************************************************)
EXTENDS Integers, Sequences, SequencesExt

CONSTANTS
    Artifacts,   \* DSO files
    Art,         \* a -> [path, loads, hasMain, modName]: what dlopen() finds
    NameArgs,    \* values of the name argument, NULL among them
    NULL,        \* a NULL char *
    Failures,    \* failure points that may fail: "calloc", "strdup",
                 \* "sock", "bind", "watcher"
    MaxLoads     \* bound on module_create() calls

VARIABLES
    dlref,       \* a -> references dlopen() handed out and not yet closed
    records,     \* records module_create() returned and not yet destroyed
    result,      \* the outcome of the last module_create() call
    loads        \* number of module_create() calls so far

vars == <<dlref, records, result, loads>>

Init ==
    /\ dlref = [a \in Artifacts |-> 0]
    /\ records = {}
    /\ result = [ok |-> TRUE, errno |-> "none", cause |-> "none",
                 name |-> <<>>, msg |-> <<>>]
    /\ loads = 0

-----------------------------------------------------------------------------
(* String helpers: the C library calls module.c makes.                    *)

\* strstr(s, t): index of the first occurrence of t in s, 0 if none.
Strstr(s, t) ==
    IF \E i \in 1..Len(s) : SubSeq(s, i, i + Len(t) - 1) = t
       THEN IndexFirstSubSeq(t, s)
       ELSE 0

\* GNU basename(): what follows the last '/', empty for a trailing '/'.
GnuBasename(s) ==
    SubSeq(s, SelectLastInSeq(s, LAMBDA c : c = "/") + 1, Len(s))

\* How glibc's printf prints a char * argument of %s.
PrintfStr(s) == IF s = NULL THEN <<"(", "n", "u", "l", "l", ")">> ELSE s

\* module_name_from_path(): the basename, cut at its first ".so".
ModuleNameFromPath(path) ==
    LET name == GnuBasename(path)
        cp == Strstr(name, <<".", "s", "o">>)
    IN IF cp = 0 THEN name ELSE SubSeq(name, 1, cp - 1)

-----------------------------------------------------------------------------
\* The outcome of a failed call: the failing step, errno, the name it
\* compared (empty before the name is known) and the error message.
Fail(cause, e, name, msg) ==
    [ok |-> FALSE, errno |-> e, cause |-> cause, name |-> name, msg |-> msg]

\* Mutant: the error path closes the DSO itself before going to cleanup,
\* as the mod_main error path does, and module_destroy() closes it again.
CleanupClosesTwice(a, cause, e, name, msg) ==
    /\ result' = Fail(cause, e, name, msg)
    /\ dlref' = [dlref EXCEPT ![a] = @ - 1]
    /\ UNCHANGED records

\* The cleanup label of module_create(): module_destroy(p) of a record
\* with no thread releases its socket and closes the dlopen() reference
\* the call took (net: no reference) and restores the errno the failing
\* step set; the call returns NULL.
Cleanup(a, cause, e, name, msg) ==
    /\ result' = Fail(cause, e, name, msg)
    /\ UNCHANGED <<dlref, records>>

\* module_create(a, name): dlopen() takes a reference, unless the
\* artifact does not load (ENOENT); a missing mod_main is closed again
\* (EINVAL); if calloc() of the record fails the nomem path calls
\* module_destroy(NULL), which returns at once; after that every failure
\* goes through module_destroy(p).  The name is the argument or the one
\* derived from the path; a legacy mod_name symbol that differs from it
\* fails the call with the message "mod_name %s != name %s", formatted
\* with mod_name and the name argument.  Then the socket is created and
\* bound and the watcher installed, each of which may fail.
ModuleCreate(a, name, fail) ==
    LET art == Art[a]
        pname == IF name = NULL THEN ModuleNameFromPath(art.path) ELSE name
    IN
    /\ loads < MaxLoads
    /\ loads' = loads + 1
    /\ CASE ~art.loads ->
              /\ result' = Fail("dlopen", "ENOENT", <<>>, <<>>)
              /\ UNCHANGED <<dlref, records>>
         [] ~art.hasMain ->
              /\ result' = Fail("dlsym", "EINVAL", <<>>, <<>>)
              /\ UNCHANGED <<dlref, records>>
         [] fail = "calloc" ->
              /\ result' = Fail("calloc", "ENOMEM", <<>>, <<>>)
              /\ dlref' = [dlref EXCEPT ![a] = @ + 1]
              /\ UNCHANGED records
         [] fail = "strdup" -> Cleanup(a, "strdup", "ENOMEM", <<>>, <<>>)
         [] art.modName # NULL /\ art.modName # pname ->
              Cleanup(a, "mismatch", "EINVAL", pname,
                      <<art.modName, PrintfStr(name)>>)
         [] fail = "sock" -> Cleanup(a, "sock", "EMFILE", pname, <<>>)
         [] fail = "bind" -> Cleanup(a, "bind", "EADDRINUSE", pname, <<>>)
         [] fail = "watcher" -> Cleanup(a, "watcher", "ENOMEM", pname, <<>>)
         [] OTHER ->
              /\ result' = [ok |-> TRUE, errno |-> "none", cause |-> "none",
                             name |-> pname, msg |-> <<>>]
              /\ dlref' = [dlref EXCEPT ![a] = @ + 1]
              /\ records' = records \cup
                              {[id |-> loads, art |-> a, name |-> pname]}

\* module_destroy(r) of a record module_create() returned: its thread was
\* never started, so no status is forced; the socket, the dlopen()
\* reference and the record are released.
Destroy(r) ==
    /\ r \in records
    /\ records' = records \ {r}
    /\ dlref' = [dlref EXCEPT ![r.art] = @ - 1]
    /\ UNCHANGED <<result, loads>>

Next ==
    \/ \E a \in Artifacts, name \in NameArgs,
          fail \in Failures \cup {"none"} : ModuleCreate(a, name, fail)
    \/ \E r \in records : Destroy(r)

Spec == Init /\ [][Next]_vars

-----------------------------------------------------------------------------
LiveOf(a) == {r \in records : r.art = a}

TypeOK ==
    /\ dlref \in [Artifacts -> Int]
    /\ loads \in 0..MaxLoads
    /\ \A r \in records : r.art \in Artifacts /\ r.id \in 0..MaxLoads

\* dlclose() is never called for a reference a live record still needs:
\* however creates of the same artifact succeed and fail (each failure
\* path releasing what it took, the nomem path nothing) and records are
\* destroyed, the loader holds at least one reference per live record,
\* so no live record's mod_main or symbols are unmapped.
DsoHeldWhileLive ==
    \A a \in Artifacts : dlref[a] >= Cardinality(LiveOf(a))

\* Spec 4.1 and 7: a name mismatch fails the create with a message naming
\* the mod_name symbol and the name it disagrees with (the record's name,
\* derived from the path when no name was given).
MismatchErrorNamesModule ==
    result.cause = "mismatch" => result.msg[2] = result.name

=============================================================================
