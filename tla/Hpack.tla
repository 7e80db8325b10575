------------------------------- MODULE Hpack -------------------------------
(***************************************************************************)
(* The dynamic table of http2_hpack.cpp, as a record of its entries, the   *)
(* newest first, and its limit.  A header block is a sequence of           *)
(* instructions:                                                           *)
(*    plain    a literal that is not indexed, or an entry of the static    *)
(*             table                                                       *)
(*    insert   a literal with incremental indexing                         *)
(*    index    a reference to the dynamic table                            *)
(*    resize   a dynamic table size update                                 *)
(* A field stands for a name and a value, Size[field] for entry_size.  The *)
(* coding of integers and strings is data only.                            *)
(***************************************************************************)
EXTENDS Integers, Sequences, FiniteSetsExt

CONSTANTS
    Fields,
    Size,
    DefaultTableSize    \* max_table_size_ of a new decoder (4096 bytes)

ASSUME HpackAssumption ==
    /\ Size \in [Fields -> Nat \ {0}]
    /\ DefaultTableSize \in Nat

Tables == [entries : Seq(Fields), max : Nat]

NewTable == [entries |-> <<>>, max |-> DefaultTableSize]

Plain(field) == [op |-> "plain", field |-> field]
Insert(field) == [op |-> "insert", field |-> field]
Index(n) == [op |-> "index", n |-> n]
Resize(n) == [op |-> "resize", n |-> n]

Instructions ==
    [op : {"plain", "insert"}, field : Fields]
      \cup [op : {"index"}, n : Nat \ {0}] \cup [op : {"resize"}, n : Nat]

\* The sum of a sequence of numbers.
Total(numbers) ==
    LET upto[i \in 0 .. Len(numbers)] == IF i = 0 THEN 0 ELSE upto[i - 1] + numbers[i]
    IN  upto[Len(numbers)]

\* table_size_ of the first n entries.
table_size(entries, n) == Total([i \in 1 .. n |-> Size[entries[i]]])

\* Faulty variant: a table that is exactly full loses an entry.
evict_dynamic_full(table) ==
    LET kept == {n \in 0 .. Len(table.entries) : n = 0 \/ table_size(table.entries, n) < table.max}
    IN  [table EXCEPT !.entries = SubSeq(table.entries, 1, Max(kept))]

\* The oldest entries go until the others fit.
evict_dynamic(table) ==
    LET kept == {n \in 0 .. Len(table.entries) : table_size(table.entries, n) <= table.max}
    IN  [table EXCEPT !.entries = SubSeq(table.entries, 1, Max(kept))]

\* Faulty variant: the next insertion will evict.
set_max_table_size_lazy(table, n) == [table EXCEPT !.max = n]

set_max_table_size(table, n) == evict_dynamic([table EXCEPT !.max = n])

\* An entry larger than the table empties it.
add_dynamic(table, field) ==
    IF Size[field] > table.max
    THEN [table EXCEPT !.entries = <<>>]
    ELSE evict_dynamic([table EXCEPT !.entries = <<field>> \o table.entries])

\* HpackDecoder::reset keeps the limit.
reset_decoder(table) == [table EXCEPT !.entries = <<>>]

(***************************************************************************)
(* decode_header_block: an exception leaves the table as the instructions  *)
(* before it have made it.                                                 *)
(***************************************************************************)
invalid(state, instruction) ==
    \/ instruction.op = "resize" /\ state.fields # <<>>
    \/ instruction.op = "index" /\ instruction.n > Len(state.table.entries)

decode_instruction(state, instruction) ==
    IF ~state.ok \/ invalid(state, instruction) THEN [state EXCEPT !.ok = FALSE]
    ELSE CASE instruction.op = "resize" ->
                [state EXCEPT !.table = set_max_table_size(state.table, instruction.n)]
           [] instruction.op = "index" ->
                [state EXCEPT !.fields = Append(state.fields, state.table.entries[instruction.n])]
           [] instruction.op = "insert" ->
                [state EXCEPT !.fields = Append(state.fields, instruction.field),
                              !.table = add_dynamic(state.table, instruction.field)]
           [] OTHER -> [state EXCEPT !.fields = Append(state.fields, instruction.field)]

decode_header_block(table, block) ==
    LET done[i \in 0 .. Len(block)] ==
          IF i = 0 THEN [table |-> table, fields |-> <<>>, ok |-> TRUE]
          ELSE decode_instruction(done[i - 1], block[i])
    IN  done[Len(block)]
============================================================================
