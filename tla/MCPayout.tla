------------------------------ MODULE MCPayout -------------------------------
(* Small instances of Payout for TLC.                                       *)
EXTENDS Payout, TLC

\* PayoutTransaction of prisma/schema.prisma, and the same with the column save() wants.
SchemaColumns == {"id", "fleetOwnerId", "bookingId", "extensionId", "amountToPay",
                  "amountPaid", "currency", "status", "payoutProviderReference",
                  "payoutMethodDetails", "initiatedAt", "processedAt", "completedAt", "notes"}
CompletedColumns == SchemaColumns \cup {"updatedAt"}

Symmetry == Permutations(PayoutIds) \cup Permutations(TransferIds)
            \cup Permutations(Requests)
=============================================================================
