---------------------------------- MODULE Gqa ----------------------------------
(***************************************************************************)
(* The alias buckets of shim_gqa_v1.c: up to GqaHeads reservations of one  *)
(* placement size are answered with the same base address.  Each helper is *)
(* one critical section of g_map_epoch_mu.                                 *)
(***************************************************************************)
EXTENDS LeafMath, Sequences

CONSTANTS
  GqaOn,     \* shim_gqa_enabled_v1()
  GqaHeads,  \* shim_gqa_max_heads()
  BucketCap  \* the 64 entries of g_gqa_buckets

ASSUME GqaAssumption ==
  /\ GqaOn \in BOOLEAN /\ GqaHeads \in Nat \ {0} /\ BucketCap \in Nat

VARIABLE buckets  \* g_gqa_buckets[0 .. g_gqa_bucket_n - 1]

GqaInit == buckets = << >>

AliasBuckets(req) ==
  {i \in DOMAIN buckets : /\ buckets[i].logical = PlacementRound(req)
                          /\ buckets[i].heads < GqaHeads}

AliasFits(req) == GqaOn /\ PlacementRound(req) <= Leaf /\ AliasBuckets(req) # {}

AliasVa(req) == buckets[Min(AliasBuckets(req))].base

TryAlias(req) ==
  /\ AliasFits(req)
  /\ buckets' = [buckets EXCEPT ![Min(AliasBuckets(req))].heads = @ + 1]

RegisterLeaf(base, req) ==
  buckets' = IF GqaOn /\ Len(buckets) < BucketCap
             THEN Append(buckets, [logical |-> PlacementRound(req), base |-> base, heads |-> 1])
             ELSE buckets

GqaReset == buckets' = << >>
=============================================================================
