----------------------------- MODULE CsvDataset -----------------------------
(***************************************************************************)
(* datasets/run.py load_default_csv_dataset: the rows of the seven files   *)
(* of a data directory become the records of a data set, which             *)
(* ingestion/loader.py stores kind after kind.  A row is a record of the   *)
(* columns the engine reads later; every row of the files at hand has its  *)
(* times.  Rates are per mille, amounts in cents.                          *)
(***************************************************************************)
EXTENDS Ledger, FeePolicy, SequencesExt

CONSTANT Files   \* the rows of each file of each data directory

FileNames == {"payments", "charges", "bank", "invoices", "refunds",
              "settlements", "policies"}

(* A payment dates from its initiation.  The columns have no word on       *)
(* duplicates, part payments or policies.                                  *)
PaymentOf(row) ==
  [kind |-> "PAYMENT", id |-> row.payment, order |-> row.order,
   amount |-> row.amount, currency |-> row.currency, method |-> row.method,
   time |-> row.initiated, dup |-> FALSE, partial |-> "unset", policy |-> None]

\* The row is the charge's metadata, where the engine finds the policy's name.
ChargeOf(row) ==
  [kind |-> "PROCESSOR", id |-> row.charge, order |-> row.order,
   amount |-> row.gross, fee |-> row.fee, currency |-> row.currency,
   time |-> row.processed, processor |-> row.processor, alike |-> TRUE,
   policy |-> row.policy]

\* A bank line refers to the settlement it pays out.
BankLineOf(row) ==
  [kind |-> "BANK", id |-> row.line, ref |-> row.settlement,
   amount |-> row.amount, currency |-> row.currency, time |-> row.posted]

InvoiceOf(row) ==
  [kind |-> "INVOICE", id |-> row.invoice, order |-> row.order,
   amount |-> row.amount]

RefundOf(row) ==
  [kind |-> "REFUND", id |-> row.refund, order |-> row.order,
   amount |-> row.amount]

\* A settlement becomes a batch under its own identifier.
BatchOf(row) ==
  [kind |-> "BATCH", id |-> row.settlement, ref |-> row.settlement,
   amount |-> row.net, currency |-> row.currency, time |-> row.settled]

FeePolicyOf(row) ==
  [Policy(row.policy, row.rate, row.fixed, row.method, row.currency)
     EXCEPT !.processor = row.processor]

(* Every file is cut at the same row, whichever orders its rows are about; *)
(* 0 stands for no limit.                                                  *)
UpTo(rows, limit) ==
  IF limit = 0 \/ Len(rows) <= limit THEN rows ELSE SubSeq(rows, 1, limit)

Converted(rows, limit, RecordOf(_)) ==
  [i \in DOMAIN UpTo(rows, limit) |-> RecordOf(rows[i])]

Listing(dir, limit) == Converted(Files[dir].payments, limit, PaymentOf)

\* Faulty variant of Contracts: the limit cuts the policies as well.
ContractsUpTo(dir, limit) == Converted(Files[dir].policies, limit, FeePolicyOf)

\* The policies are read to the end.
Contracts(dir, limit) == Converted(Files[dir].policies, 0, FeePolicyOf)

\* load_dataset: the order in which the records are stored.
LoadOrder(dir, limit) ==
  LET file == Files[dir]
  IN  Converted(file.invoices, limit, InvoiceOf)
      \o Listing(dir, limit)
      \o Converted(file.charges, limit, ChargeOf)
      \o Converted(file.settlements, limit, BatchOf)
      \o Converted(file.bank, limit, BankLineOf)
      \o Converted(file.refunds, limit, RefundOf)

Dirs == DOMAIN Files
RecordsOf(dir) == ToSet(LoadOrder(dir, 0))
=============================================================================
