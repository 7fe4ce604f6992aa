---------------------------- MODULE MCAbdExample ----------------------------
(***************************************************************************)
(* A small instance of the example: two processes are started, client 1    *)
(* twice or each client once.  Client 1 reads, writes and reads, or reads  *)
(* and writes another value; client 2 reads once.                          *)
(***************************************************************************)
EXTENDS AbdExample, TLC
CONSTANTS s1, s2, s3

ServerSymmetry == Permutations({s1, s2, s3})
WriterAndReader ==
  (1 :> {[n_writes |-> 1, n_reads |-> 2], [n_writes |-> 2, n_reads |-> 1]})
    @@ (2 :> {[n_writes |-> 0, n_reads |-> 1]})
OneWrite == (1 :> 1) @@ (2 :> 0)
FewRequests == (1 :> 4) @@ (2 :> 2)

(* The view leaves out the requests whose handling changes nothing any     *)
(* more, but for the pairs that they carry.                                *)
Matters(r, s) ==
  \/ phase[r.client] # "idle" /\ request[r.client].id = r.id
  \/ r.type = "Write" /\ TsLt(server[s].timestamp, r.timestamp)
Useful(r) == [r EXCEPT !.to = {s \in @ : Matters(r, s)}]
UsefulRequests == {r \in {Useful(r) : r \in requests} : r.to # {}}
UsefulLeftover ==
  {w \in {[w EXCEPT !.to = {s \in @ : TsLt(server[s].timestamp, w.timestamp)}] : w \in leftover} : w.to # {}}
View == <<server, UsefulRequests, responses, broken, client, accum, ghosts,
          workload, process, UsefulLeftover, ExamplePairs, restarts, abandoned, forgot>>
=============================================================================
