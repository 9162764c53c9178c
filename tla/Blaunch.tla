------------------------------- MODULE Blaunch -------------------------------
(***************************************************************************)
(* main() of src/lsbatch/cmd/blaunch.c up to its call of lsb_launch(): the *)
(* getopt loop, the host list from -z, from -u or from the first operand,  *)
(* the LSB_JOBID check, the -u/-z exclusion and the command built from the *)
(* remaining operands.  It is a function of the command line, the host     *)
(* files and the environment, checked over every command line of a few     *)
(* arguments against spec 4.4 (the launcher CLI).                          *)
(*                                                                         *)
(* An argument is the sequence of its blank-separated words, as            *)
(* getNextWord_() splits it; an option is the one-word argument <<"-z">>   *)
(* and so on.  A host file is the sequence of its lines, each a host name, *)
(* and whether its last line ends with a newline.  ls_initrex(), lsb_init()*)
(* and the log set-up succeed; -v and -t only set up logging and the poll  *)
(* interval, and are left out.                                             *)
(***************************************************************************)
EXTENDS Naturals, Sequences, SequencesExt

CONSTANTS
  Words,        \* host names and command words
  Resolvable,   \* the words gethostbyname() resolves
  HostFile,     \* file name (an argument) -> [lines, lastEol], or NoFile
  NoFile,       \* fopen() fails
  NoList,       \* host_list == NULL
  Args,         \* the arguments a command line is made of
  MaxArgs       \* the longest command line checked

Options == {"-z", "-u", "-n", "-V", "-h"}
WithArg == {"-z", "-u"}
IsOption(a) == Len(a) = 1 /\ a[1] \in Options

\* main() returns -1 before lsb_launch().
Fail == [launch |-> FALSE, hosts |-> <<>>, command |-> <<>>, stdinClosed |-> FALSE]

-----------------------------------------------------------------------------
(* getopt(argc, argv, "hVvnz:u:t:") with POSIXLY_CORRECT: options are read *)
(* until the first operand; -z and -u take the next argument, whatever it  *)
(* is; an option missing its argument is '?'.  The result is the options   *)
(* with their arguments, in order, and optind.                             *)

RECURSIVE GetoptFrom(_, _, _)
GetoptFrom(argv, i, opts) ==
  IF i > Len(argv) \/ ~IsOption(argv[i]) THEN [opts |-> opts, optind |-> i]
  ELSE LET o == argv[i][1] IN
       IF o \in WithArg
       THEN IF i = Len(argv)
            THEN [opts |-> Append(opts, [c |-> "?", arg |-> <<>>]), optind |-> i + 1]
            ELSE GetoptFrom(argv, i + 2, Append(opts, [c |-> o, arg |-> argv[i + 1]]))
       ELSE GetoptFrom(argv, i + 1, Append(opts, [c |-> o, arg |-> <<>>]))

\* argv[1] is the first argument after the program name.
Getopt(argv) == GetoptFrom(argv, 1, <<>>)

-----------------------------------------------------------------------------
(* The code.                                                               *)

\* get_host_list(): one host per word of the -z argument.
HostsOfWords(arg) == arg

\* get_host_list_from_file(): fopen() failing leaves host_list alone;
\* count_lines() counts the newlines and host_list gets one slot more; the
\* fgets() loop stores one entry per line.  A last line without newline
\* takes the NULL slot: the list is not terminated ("unterminated").
HostsFromFile(name, old) ==
  LET f == HostFile[name] IN
  IF f = NoFile THEN old
  ELSE IF f.lines # <<>> /\ ~f.lastEol THEN "unterminated"
  ELSE f.lines

\* The switch of the getopt loop: z and u count the options, host_list is
\* set by the first of -z and -u met and by each later one of the same
\* kind; -h and '?' print usage and return -1.
RECURSIVE SwitchFrom(_, _, _)
SwitchFrom(opts, i, st) ==
  IF i > Len(opts) THEN st
  ELSE LET o == opts[i] IN
  CASE o.c \in {"-h", "?"} -> [st EXCEPT !.rc = -1]
    [] o.c = "-z" -> SwitchFrom(opts, i + 1,
                       [st EXCEPT !.z = @ + 1,
                                  !.hosts = IF st.u = 0 THEN HostsOfWords(o.arg) ELSE @])
    [] o.c = "-u" -> SwitchFrom(opts, i + 1,
                       [st EXCEPT !.u = @ + 1,
                                  !.hosts = IF st.z = 0 THEN HostsFromFile(o.arg, @) ELSE @])
    [] o.c = "-n" -> SwitchFrom(opts, i + 1, [st EXCEPT !.stdinClosed = TRUE])
    [] OTHER      -> SwitchFrom(opts, i + 1, st)

\* Mutant: optind not moved past the host, which is then also the command.
HostsFromArgKeepOptind(argv, optind) ==
  IF optind <= Len(argv) /\ Len(argv[optind]) = 1 /\ argv[optind][1] \in Resolvable
  THEN [hosts |-> argv[optind], optind |-> optind]
  ELSE [hosts |-> NoList, optind |-> optind]

\* get_hosts_from_arg(): argv[optind] through gethostbyname(); a resolved
\* name is the one host and optind moves past it.  With no operand left
\* argv[optind] is NULL, undefined for gethostbyname(): either way there
\* is no host list.
HostsFromArg(argv, optind) ==
  IF optind <= Len(argv) /\ Len(argv[optind]) = 1 /\ argv[optind][1] \in Resolvable
  THEN [hosts |-> argv[optind], optind |-> optind + 1]
  ELSE [hosts |-> NoList, optind |-> optind]

\* build_command(): nothing when no operand is left, else a copy of
\* argv[optind..]; each copy loses its leading blanks and quotes and a
\* trailing quote, which the words of the model do not have.
BuildCommand(argv, optind) == SubSeq(argv, optind, Len(argv))

\* main() up to lsb_launch(): the result is Fail (usage or an error,
\* return -1) or the host list and command handed to lsb_launch().
Blaunch(argv, jobIdSet) ==
  LET g  == Getopt(argv)
      st == SwitchFrom(g.opts, 1, [rc |-> 0, z |-> 0, u |-> 0, hosts |-> NoList,
                                   stdinClosed |-> FALSE])
      h  == IF st.hosts = NoList THEN HostsFromArg(argv, g.optind)
            ELSE [hosts |-> st.hosts, optind |-> g.optind]
  IN IF \/ argv = <<>> \/ st.rc = -1 \/ ~jobIdSet
        \/ st.z > 0 /\ st.u > 0
        \/ h.hosts = NoList \/ h.optind > Len(argv)
     THEN Fail
     ELSE [launch |-> TRUE, hosts |-> h.hosts, command |-> BuildCommand(argv, h.optind),
           stdinClosed |-> st.stdinClosed]

-----------------------------------------------------------------------------
(* Spec 4.4, the launcher CLI: -z "h1 h2 ..." and -u <hostfile> (one host  *)
(* per line) are mutually exclusive; without them the first operand is    *)
(* the one host, validated by name lookup; the operands after it are the   *)
(* command; -n closes stdin; -h prints usage.  The job id must be set.     *)

BlaunchSpec(argv, jobIdSet) ==
  LET g    == Getopt(argv)
      cs   == {g.opts[i].c : i \in DOMAIN g.opts}
      last(c) == g.opts[SelectLastInSeq(g.opts, LAMBDA o : o.c = c)].arg
      ops  == SubSeq(argv, g.optind, Len(argv))
      fromOpt == IF "-z" \in cs THEN last("-z") ELSE HostFile[last("-u")].lines
      byArg   == ops # <<>> /\ Len(ops[1]) = 1 /\ ops[1][1] \in Resolvable
      cmd  == IF cs \cap WithArg # {} THEN ops ELSE Tail(ops)
  IN IF \/ argv = <<>> \/ cs \cap {"-h", "?"} # {} \/ ~jobIdSet
        \/ WithArg \subseteq cs
        \/ cs \cap WithArg = {} /\ ~byArg
        \/ cmd = <<>>
     THEN Fail
     ELSE [launch |-> TRUE, hosts |-> IF cs \cap WithArg # {} THEN fromOpt ELSE <<ops[1][1]>>,
           command |-> cmd, stdinClosed |-> "-n" \in cs]

-----------------------------------------------------------------------------
(* Properties.                                                             *)

\* The command lines whose -u files can all be read and end each line with
\* a newline (see the hazards of get_host_list_from_file()).
HostFilesWellFormed(argv) ==
  LET opts == Getopt(argv).opts IN
  \A i \in DOMAIN opts :
    opts[i].c = "-u" =>
      /\ HostFile[opts[i].arg] # NoFile
      /\ HostFile[opts[i].arg].lines # <<>> => HostFile[opts[i].arg].lastEol

\* For every command line of at most MaxArgs arguments built from Args,
\* with LSB_JOBID set or not, main() either fails or calls lsb_launch()
\* with the hosts and the command spec 4.4 names: the getopt loop, the
\* -u/-z exclusion tested after both were read, the host taken from the
\* first operand only when neither option was given, and the command from
\* the operands after it.
BlaunchMatchesSpec ==
  \A argv \in BoundedSeq(Args, MaxArgs), jobIdSet \in BOOLEAN :
    HostFilesWellFormed(argv) => Blaunch(argv, jobIdSet) = BlaunchSpec(argv, jobIdSet)

====
