------------------------------- MODULE SpyStart -------------------------------
(* main() from its options to the launch of the process, as far as its logs  *)
(* are concerned: the built-in one, opened first, and that of the global,    *)
(* which takes over stderr and replaces it. One action per call of main.     *)
(*                                                                           *)
(* Paths are abstracted to what the code asks of them: is it empty, and is   *)
(* it absolute? The script is abstracted to the keys it sets in "spy.core".  *)
EXTENDS SpySockets, SpyTimes, Sequences, SequencesExt, FiniteSetsExt

CONSTANTS
    Null,
    Keys,          \* what spy_parse_core_conf asks the script for
    Seconds        \* bound: the seconds the start may take

VARIABLES
    descriptors,   \* external: what each descriptor refers to
    options,       \* what spy_get_options found
    time,          \* the time cache
    builtin,       \* the descriptor of the built-in log
    open_files,    \* the files of the new global
    log,           \* global->log->file, as a place in open_files
    pc,            \* the next call of main, or how it ended
    failed         \* a call failed, or the program was used wrongly

startVars == <<descriptors, options, time, builtin, open_files, log, pc, failed>>

StdErr  == 2
Paths   == {"empty", "relative", "absolute"}
Options == [log_path : Paths, prefix : BOOLEAN, script : SUBSET Keys]

StartInit ==
    /\ descriptors = [f \in Fds |-> IF f =< StdErr THEN "terminal" ELSE "free"]
    /\ options = [log_path |-> "relative", prefix |-> FALSE, script |-> Keys]
    /\ time = EmptyCache
    /\ builtin = NoFd
    /\ open_files = <<>>
    /\ log = Null
    /\ pc = "spy_strerror_init"
    /\ failed = FALSE

\* open(2) gives the lowest free number, if it does not fail.
LowestFree(d) == Min({f \in Fds : d[f] = "free"})
CanOpen(d)    == \E f \in Fds : d[f] = "free"

Continue(call) == pc' = call /\ UNCHANGED failed
Fail(how)      == pc' = how /\ failed' = TRUE

\* How main ends when it has an error to log before it returns: every line but
\* those of a log without descriptor begins with the cached time.
Logged(fd) == IF fd # NoFd /\ time.log_time = NoTime THEN "bad_pointer" ELSE "returned"

-----------------------------------------------------------------------------
\* Memory for the messages of the system.
StrerrorInit ==
    /\ pc = "spy_strerror_init"
    /\ Continue("spy_get_options") \/ Fail("returned")
    /\ UNCHANGED <<descriptors, options, time, builtin, open_files, log>>

\* An unknown option, or one without its value, ends the program.
GetOptions ==
    /\ pc = "spy_get_options"
    /\ \/ options' \in Options /\ Continue("spy_log_init")
       \/ UNCHANGED options /\ Fail("returned")
    /\ UNCHANGED <<descriptors, time, builtin, open_files, log>>

\* A path that is empty, or cannot be opened, logs to stderr. A relative one is
\* put behind the prefix, in memory of its own.
LogInit ==
    /\ pc = "spy_log_init"
    /\ \/ /\ builtin' = StdErr
          /\ UNCHANGED descriptors
          /\ Continue("spy_time_init")
       \/ /\ options.log_path # "empty"
          /\ CanOpen(descriptors)
          /\ builtin' = LowestFree(descriptors)
          /\ descriptors' = [descriptors EXCEPT ![builtin'] = "builtin"]
          /\ Continue("spy_time_init")
       \/ /\ options.log_path = "relative" /\ options.prefix
          /\ UNCHANGED <<descriptors, builtin>>
          /\ Fail("returned")
    /\ UNCHANGED <<options, time, open_files, log>>

TimeInit ==
    /\ pc = "spy_time_init"
    /\ \E sec \in Seconds : time' = TimeUpdate(time, sec)
    /\ Continue("spy_create_pool")
    /\ UNCHANGED <<descriptors, options, builtin, open_files, log>>

\* Without memory for the pool main has that to log.
CreatePool ==
    /\ pc = "spy_create_pool"
    /\ Continue("spy_process_options") \/ Fail(Logged(builtin))
    /\ UNCHANGED <<descriptors, options, time, builtin, open_files, log>>

\* The prefix and the full name of the script: the working directory may not be
\* known, which goes to stderr, and memory may be short, which is logged.
ProcessOptions ==
    /\ pc = "spy_process_options"
    /\ Continue("spy_global_init") \/ Fail("returned") \/ Fail(Logged(builtin))
    /\ UNCHANGED <<descriptors, options, time, builtin, open_files, log>>

-----------------------------------------------------------------------------
\* spy_conf_init: a script in which a key is missing is an error.
ConfOK(keys) == Keys \subseteq keys

\* The loop of spy_global_init that opens the files of the list.
OpenFiles(st) ==
    FoldLeft(LAMBDA s, i : IF s.files[i].name = "empty" \/ ~ CanOpen(s.descriptors)
                           THEN s
                           ELSE [ files       |-> [s.files EXCEPT ![i].fd = LowestFree(s.descriptors)],
                                  descriptors |-> [s.descriptors EXCEPT
                                                     ![LowestFree(s.descriptors)] = "log"] ],
             st, [i \in DOMAIN st.files |-> i])
AllOpen(files) == \A i \in DOMAIN files : files[i].name # "empty" => files[i].fd # NoFd

\* spy_conf_open_file: the entry of that name, or a new one, not opened yet.
\* Without a name it is stderr.
ConfOpenFile(files, name) ==
    IF \E i \in DOMAIN files : name # "empty" /\ files[i].name = name
    THEN files
    ELSE Append(files, [name |-> name, fd |-> IF name = "empty" THEN StdErr ELSE NoFd])

(* spy_global_init. The list is empty when its files are opened; then        *)
(* "spy.log", made absolute, is put in it. Without memory, with a script that *)
(* does not run, or with a file that cannot be opened, main gets NULL and    *)
(* uses it.                                                                  *)
GlobalInit ==
    /\ pc = "spy_global_init"
    /\ \E sec \in Seconds : time' = TimeUpdate(time, sec)
    /\ \/ LET opened == OpenFiles([files |-> <<>>, descriptors |-> descriptors])
          IN  /\ ConfOK(options.script)
              /\ AllOpen(opened.files)
              /\ open_files' = ConfOpenFile(opened.files, "absolute")
              /\ descriptors' = opened.descriptors
              /\ log' = Len(open_files')
              /\ Continue("spy_set_stderr")
       \/ /\ UNCHANGED <<descriptors, open_files, log>>
          /\ Fail("bad_pointer")
    /\ UNCHANGED <<options, builtin>>

-----------------------------------------------------------------------------
\* dup2(fd, 2) of a descriptor that is not open is an error, logged to the very
\* log that has no descriptor.
SetStderr ==
    LET fd == open_files[log].fd IN
    /\ pc = "spy_set_stderr"
    /\ \/ /\ fd = StdErr
          /\ UNCHANGED descriptors
          /\ Continue("spy_close_file")
       \/ /\ fd \in Fds \ {StdErr}
          /\ descriptors' = [descriptors EXCEPT ![StdErr] = descriptors[fd]]
          /\ Continue("spy_close_file")
       \/ /\ fd = NoFd
          /\ UNCHANGED descriptors
          /\ Continue(Logged(fd))
    /\ UNCHANGED <<options, time, builtin, open_files, log>>

CloseBuiltin ==
    /\ pc = "spy_close_file"
    /\ descriptors' = IF builtin = StdErr THEN descriptors
                                          ELSE [descriptors EXCEPT ![builtin] = "free"]
    /\ Continue("launched")
    /\ UNCHANGED <<options, time, builtin, open_files, log>>

StartNext ==
    \/ StrerrorInit \/ GetOptions \/ LogInit \/ TimeInit \/ CreatePool \/ ProcessOptions
    \/ GlobalInit \/ SetStderr \/ CloseBuiltin

StartSpec == StartInit /\ [][StartNext]_startVars

-----------------------------------------------------------------------------
(* "launch" (spy.c:98): a start in which no call failed, with a complete     *)
(* script, reaches spy_single_process_launch. The log it redirects stderr to *)
(* is one spy_global_init has "opened" (spy_global.c:147, 185).              *)
StartLaunches == pc \in {"returned", "bad_pointer"} => failed
=============================================================================
