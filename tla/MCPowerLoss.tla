----------------------------- MODULE MCPowerLoss -----------------------------
(***************************************************************************)
(* The programs that order their stores by hand, for TLC: a machine runs   *)
(* one of them until it ends or the power fails.  What it does not run     *)
(* stays as it is.                                                         *)
(***************************************************************************)
EXTENDS VersioningInsert

CONSTANTS Programs, Prices, NRecords, MaxRuns, Lengths, MaxBufLen

\* The string ends within the buffer.
ASSUME LengthsAssumption == MaxBufLen \in Nat /\ Lengths \subseteq 0 .. MaxBufLen - 1

ASSUME RecordsAssumption == NRecords \in Nat \ {0}

ASSUME PricesAssumption == Programs \subseteq {"publish", "tx"} /\ Prices \subseteq Nat

VARIABLES
  started,
  prog, price, apc, n, act, heap, flushed, stable, balance, kept, undo,
  rmem, rmedia, i, rpc, runs,
  strlenBuf, wpc, showPc, len, chars, unsure, shown

AccountVars == <<prog, price, apc, n, act, heap, flushed, stable, balance, kept, undo>>
RecordVars  == <<rmem, rmedia, i, rpc, runs>>
StringVars  == <<strlenBuf, wpc, showPc, len, chars, unsure, shown>>
AllVars     == <<started, vars, AccountVars, RecordVars, StringVars>>

\* The five inserts of main, and shorter sequences with equal entries and with entries
\* that only go to the front or to the back.
MCInputs == {<<0, 5, 3, 1, 2>>, <<4, 4, 1, 4>>, <<3, 2, 1>>, <<1, 2, 3>>, <<0, 0, -1>>}

Bank == INSTANCE Accounts WITH pc <- apc

Recorder == INSTANCE Records WITH N <- NRecords, mem <- rmem, media <- rmedia, pc <- rpc

Strings == INSTANCE WriterReader WITH rpc <- showPc

MCInit ==
  /\ started \in {"versioning", "accounts", "records", "strings"}
  /\ Init
  /\ started # "versioning" => input = <<1, 2, 3>>
  /\ Bank!Init
  /\ started # "accounts" => prog = "tx" /\ price = 42
  /\ Recorder!Init
  /\ Strings!Init
  /\ started # "strings" => strlenBuf = 0

VersioningStep == started = "versioning" /\ Next /\ UNCHANGED <<started, AccountVars, RecordVars, StringVars>>
AccountStep    == started = "accounts" /\ Bank!Next /\ UNCHANGED <<started, vars, RecordVars, StringVars>>
RecordStep     == started = "records" /\ Recorder!Next /\ UNCHANGED <<started, vars, AccountVars, StringVars>>
StringStep     == started = "strings" /\ Strings!Next /\ UNCHANGED <<started, vars, AccountVars, RecordVars>>

Over == /\ \/ started = "versioning" /\ pc = "closed"
           \/ started = "accounts" /\ apc = "down"
           \/ started = "records" /\ rpc = "down" /\ runs = MaxRuns
        /\ UNCHANGED AllVars

MCNext == VersioningStep \/ AccountStep \/ RecordStep \/ StringStep \/ Over

MCSpec == MCInit /\ [][MCNext]_AllVars
-----------------------------------------------------------------------------
(* ppm_ch7_6 and ppm_ch7_7: wherever it ends, the pool holds whole         *)
(* accounts, in the medium, and no money was made or lost.                 *)
PoolIsConsistent == Bank!PoolIsConsistent

(* ppm_ch12_38: wherever the power failed, a record marked as named has    *)
(* its whole name.                                                         *)
RecordsReadable == Recorder!RecordsReadable

(* ppm_ch7_1 and ppm_ch7_2: the reader prints the whole string, an empty   *)
(* line or nothing, whatever bytes of the string the medium lost.          *)
ShownIsWhole == Strings!ShownIsWhole
=============================================================================
