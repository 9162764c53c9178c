------------------------------ MODULE MCLaunch ------------------------------
(* Two usage snapshots that share a pid, so that the pid vector of a frame *)
(* is a multiset.  The hosts are those blaunch hands to lsb_launch() for   *)
(* the command line  blaunch -z "h1 h2" cmd.                               *)
EXTENDS Launch

CONSTANTS H1, H2, C, NoFile, NoList

MCSnapshots == {[mem |-> 1, pids |-> <<7>>], [mem |-> 2, pids |-> <<7, 8>>]}

\* The arguments: the options, an empty argument, one host, two hosts in
\* one argument, and a command word.  The file named by <<H1>> holds H2
\* and H1, that named by <<C>> is empty, the others cannot be opened.
MCArgs == {<<"-z">>, <<"-u">>, <<"-n">>, <<"-V">>, <<"-h">>,
           <<>>, <<H1>>, <<H1, H2>>, <<C>>}
MCHostFile ==
  [a \in MCArgs |-> CASE a = <<H1>> -> [lines |-> <<H2, H1>>, lastEol |-> TRUE]
                      [] a = <<C>>  -> [lines |-> <<>>, lastEol |-> TRUE]
                      [] OTHER      -> NoFile]

B == INSTANCE Blaunch WITH Words <- {H1, H2, C}, Resolvable <- {H1, H2},
                           HostFile <- MCHostFile, Args <- MCArgs, MaxArgs <- 4

\* blaunch's main() has run when lsb_launch() is entered, before its first
\* ls_rtask(): there, every command line blaunch may have been given is
\* turned into the lsb_launch() call spec 4.4 names (Blaunch.tla).
BlaunchMatchesSpec == pc = "start" /\ cc = 1 => B!BlaunchMatchesSpec

\* N: the length of the host list blaunch passes.
MCN == Len(B!Blaunch(<<<<"-z">>, <<H1, H2>>, <<C>>>>, TRUE).hosts)

====
