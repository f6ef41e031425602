------------------------------ MODULE MCPhases ------------------------------
(***************************************************************************)
(* Command lines for one and two files, and volumes nearly full and nearly *)
(* empty, for checking Phases.                                             *)
(***************************************************************************)
EXTENDS Phases

File(asked, limit, bufsize, before, device) ==
  [asked |-> asked, limit |-> limit, bufsize |-> bufsize, before |-> before, device |-> device]

Buffers == {2 * MB, 32 * MB, 64 * MB}

\* Files of no size, of the size of a request, and of many; absent, small and large.
Files ==
  {File(a, l, b, e, FALSE) : a \in {0, 1 * MB, 300 * MB, 8192 * MB}, l \in {0, 20 * MB},
                             b \in Buffers, e \in {Absent, 100 * MB, 1024 * MB}}
    \cup {File(0, 0, b, e, TRUE) : b \in Buffers, e \in {1 * MB, 4096 * MB}}

Command(files, named, iobufsize, reqsizes, complete, validate, keep, space) ==
  [files |-> files, named |-> named, iobufsize |-> iobufsize, sector |-> 1, reqsizes |-> reqsizes, depth |-> 1,
   complete |-> complete, validate |-> validate, keep_files |-> keep, free |-> space]

Volumes == {20 * MB, 1500 * MB, 20480 * MB}

DefaultCommands ==
  {Command(<<File(0, 0, b, e, FALSE)>>, FALSE, b, {}, c, v, k, s) :
     b \in Buffers, e \in {Absent, 100 * MB, 1024 * MB}, c \in BOOLEAN, v \in BOOLEAN, k \in BOOLEAN, s \in Volumes}

OneFileCommands ==
  {Command(<<f>>, TRUE, b, r, FALSE, v, k, s) :
     f \in Files, b \in Buffers, r \in {{}, {3 * MB, 24 * MB}}, v \in BOOLEAN, k \in BOOLEAN, s \in Volumes}

TwoFileCommands ==
  {Command(<<f, h>>, TRUE, 32 * MB, {}, FALSE, v, FALSE, s) :
     f \in {x \in Files : x.bufsize = 32 * MB}, h \in {x \in Files : x.bufsize = 32 * MB /\ x.limit = 0},
     v \in BOOLEAN, s \in Volumes}

Commands == DefaultCommands \cup OneFileCommands \cup TwoFileCommands
=============================================================================
