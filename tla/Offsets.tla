------------------------------- MODULE Offsets -------------------------------
(***************************************************************************)
(* Where the request generators put the next request: the arithmetic of    *)
(* sequential_workload.c, random_workload.c and mixed_workload.c on the    *)
(* position of a stream, the size of the request and the file's size, all  *)
(* in sectors.                                                             *)
(***************************************************************************)
EXTENDS Integers

\* Mutation: a request that ends exactly at the end of the file starts over.
SequentialWrapsEarly(pos, size, filesize) == pos + size >= filesize

\* data->off, already advanced, has passed the end of the file.
SequentialWraps(pos, size, filesize) == pos + size > filesize

SequentialOffset(pos, size, filesize) == IF SequentialWraps(pos, size, filesize) THEN 0 ELSE pos

\* The request that starts over does not advance the position: the request
\* after it goes to offset 0 once more.
SequentialNext(pos, size, filesize) == IF SequentialWraps(pos, size, filesize) THEN 0 ELSE pos + size

\* One of the file's whole blocks of this size.
RandomOffset(base, size, filesize) == (base % (filesize \div size)) * size

\* Mutation: the position is compared before the request is added to it.
ForwardUnchecked(pos, size, filesize) == IF pos > filesize THEN 0 ELSE pos

\* The forward streams of the mixed generator start over before the request
\* that would not fit; its size varies from one request to the next.
ForwardOffset(pos, size, filesize) == IF pos + size > filesize THEN 0 ELSE pos

\* Mutation: the stream restarts at the last sector of the file.
BackwardFromLast(pos, size, filesize) == (IF pos < size THEN filesize - 1 ELSE pos) - size

\* The backward streams restart at the end of the file.
BackwardOffset(pos, size, filesize) == (IF pos < size THEN filesize ELSE pos) - size
=============================================================================
