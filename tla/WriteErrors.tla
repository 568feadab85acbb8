----------------------------- MODULE WriteErrors -----------------------------
(***************************************************************************)
(* packages/ingest/src/errors.ts: what a failed write says about the event *)
(* and about the store.                                                    *)
(*                                                                         *)
(* A code is a record: the exact string (kept only where a set of the      *)
(* source lists it), its first two characters and whether it has the five  *)
(* characters of a SQLSTATE.  The tests of the source are tried in the     *)
(* source's order.                                                         *)
(***************************************************************************)

Code(exact, prefix, five) == [exact |-> exact, prefix |-> prefix, five |-> five]

DataPrismaCodes == {"P2000", "P2003", "P2005", "P2006", "P2023", "P2025"}
SchemaPrismaCodes == {"P2021", "P2022"}
TransientPrismaCodes ==
    {"P1000", "P1001", "P1002", "P1008", "P1017", "P2024", "P2028"}
TransientSocketCodes ==
    {"ECONNREFUSED", "ECONNRESET", "ETIMEDOUT", "EPIPE", "ENOTFOUND",
     "EAI_AGAIN", "EHOSTUNREACH", "ENETUNREACH"}
TransientSqlStates == {"57P01", "57P02", "57P03", "53300", "40001", "40P01"}
DataSqlStates == {"23503", "23505", "23514"}
SchemaSqlStates == {"23502"}

EventFault == [class |-> "permanent", recognized |-> TRUE, scope |-> "event"]
StoreFault == [class |-> "permanent", recognized |-> TRUE, scope |-> "store"]
StoreOutage == [class |-> "transient", recognized |-> TRUE, scope |-> "store"]
UnknownFault ==
    [class |-> "transient", recognized |-> FALSE, scope |-> "unclassified"]

classifyWriteErrorDetailed(code) ==
    CASE code.exact = "PrismaClientValidationError" -> EventFault
      [] code.exact \in DataPrismaCodes             -> EventFault
      [] code.exact \in SchemaPrismaCodes           -> StoreFault
      [] code.exact \in TransientPrismaCodes \cup TransientSocketCodes
                           \cup TransientSqlStates  -> StoreOutage
      [] code.prefix = "08"                         -> StoreOutage
      [] code.five /\ code.prefix = "22"            -> EventFault
      [] code.five /\ code.exact \in DataSqlStates  -> EventFault
      [] code.five /\ code.exact \in SchemaSqlStates -> StoreFault
      [] code.five /\ code.prefix = "42"            -> StoreFault
      [] code.five /\ code.prefix = "23"
           /\ code.exact \notin SchemaSqlStates     -> EventFault
      [] OTHER                                      -> UnknownFault
=============================================================================
