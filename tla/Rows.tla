-------------------------------- MODULE Rows --------------------------------
(***************************************************************************)
(* Values on their way to the server and back: parameters to a message of  *)
(* the wire protocol, the server's reading of it, the server's row and the *)
(* parsing of that; and the coercion of a described column, in the wire    *)
(* client and in the native one.                                           *)
(*                                                                         *)
(* A value is its kind and its bytes: numbers, dates and the bits of a     *)
(* float are eight bytes, text and blobs are as long as they are.  A       *)
(* version of the protocol is its number.                                  *)
(***************************************************************************)
EXTENDS Blocks

CONSTANT MAX_DATA_LENGTH    \* the longest text that is not sent as a blob

Val(k, v) == [k |-> k, v |-> v]
NullVal == Val("Null", <<>>)
is_null(p) == p.k = "Null"

\* impl_param_int, for a signed number of w bytes: sign extended to eight.
into_param(v) ==
  Val("Integer", [i \in 1..8 - Len(v) |-> IF v[1] > 127 THEN 255 ELSE 0] \o v)

\* ColumnToVal for a number of w bytes: what is above them is lost.  Null and
\* another kind of value are errors; an Option makes None of Null.
ConversionError == <<-1>>
None == <<-2>>
to_val(value, w) ==
  IF value.k = "Integer" THEN SubSeq(value.v, 9 - w, 8) ELSE ConversionError
to_option(value, w) == IF is_null(value) THEN None ELSE to_val(value, w)

Zeros(n) == [i \in 1..n |-> 0]
Padded(n) == ((n + 3) \div 4) * 4
Pad(bytes) == bytes \o Zeros(Padded(Len(bytes)) - Len(bytes))

---------------------------------------------------------------------------
(* Parameters                                                              *)

\* 32 parameters to a word, the first in its lowest bit, the lowest byte first.
Word(chunk) ==
  [j \in 1..4 |-> MapThenSumSet(LAMBDA b : 2 ^ b,
     {b \in 0..7 : 8 * (j - 1) + b + 1 \in DOMAIN chunk /\ is_null(chunk[8 * (j - 1) + b + 1])})]

\* Mutant of null_bitmap: words in the order of the rest of the protocol.
null_bitmapBig(params) ==
  FlattenSeq([c \in 1..(Len(params) + 31) \div 32 |->
    Reverse(Word(SubSeq(params, 32 * c - 31, IF 32 * c < Len(params) THEN 32 * c ELSE Len(params))))])

null_bitmap(params) ==
  FlattenSeq([c \in 1..(Len(params) + 31) \div 32 |->
    Word(SubSeq(params, 32 * c - 31, IF 32 * c < Len(params) THEN 32 * c ELSE Len(params)))])

AsBlob(p) == p.k = "Binary" \/ (p.k = "Text" /\ Len(p.v) > MAX_DATA_LENGTH)
Id(i) == Zeros(4) \o be(i, 4)

\* What is said of a parameter, and what is sent for it.
param_blr(p) ==
  CASE AsBlob(p) -> [t |-> "QUAD", len |-> 8]
    [] p.k = "Boolean" -> [t |-> "BOOL", len |-> 1]
    [] p.k = "Null" -> [t |-> "TEXT", len |-> 0]
    [] p.k = "Text" -> [t |-> "TEXT", len |-> Len(p.v)]
    [] p.k \in {"Integer", "Floating", "Timestamp"} -> [t |-> p.k, len |-> 8]
null_indicator(null) == IF null THEN <<255, 255, 255, 255>> ELSE Zeros(4)
put_param(p, i, version) ==
  (IF AsBlob(p) THEN Id(i) ELSE Pad(p.v))
  \o (IF version < 13 THEN null_indicator(is_null(p)) ELSE <<>>)

\* params_to_blr: the description, the message, and the blobs made on the way.
params_to_blr(params, version) ==
  [blr |-> [i \in DOMAIN params |-> param_blr(params[i])],
   values |-> (IF version >= 13 THEN null_bitmap(params) ELSE <<>>)
              \o FlattenSeq([i \in DOMAIN params |-> put_param(params[i], i, version)]),
   blobs |-> [i \in {j \in DOMAIN params : AsBlob(params[j])} |-> params[i].v]]

---------------------------------------------------------------------------
(* The server                                                              *)

Bit(map, i) == (map[(i - 1) \div 8 + 1] \div 2 ^ ((i - 1) % 8)) % 2 = 1

\* It reads item by item, by the description: null, or the bytes of the item.
ReadItems(blr, bytes, version, map) ==
  LET size(i) == IF version >= 13 /\ Bit(map, i) THEN 0 ELSE Padded(blr[i].len)
      start[i \in 1..Len(blr)] ==
        IF i = 1 THEN 0 ELSE start[i - 1] + size(i - 1) + (IF version >= 13 THEN 0 ELSE 4)
      item(i) == After(bytes, start[i])
      null(i) == IF version >= 13 THEN Bit(map, i)
                 ELSE /\ Len(item(i)) >= size(i) + 4
                      /\ SubSeq(item(i), size(i) + 1, size(i) + 4) # Zeros(4)
  IN [i \in DOMAIN blr |->
        [null |-> null(i),
         v |-> IF Len(item(i)) < size(i) THEN <<>> ELSE SubSeq(item(i), 1, blr[i].len)]]
ReadMessage(blr, bytes, version) ==
  LET m == IF version >= 13 THEN 4 * ((Len(blr) + 31) \div 32) ELSE 0
  IN ReadItems(blr, After(bytes, m), version, SubSeq(bytes, 1, m))

\* The column a value comes back in; a null in one of type t.
ColumnOf(p, t) ==
  [t |-> IF AsBlob(p) THEN "BLOB"
         ELSE CASE p.k = "Null" -> t [] p.k = "Text" -> "VARYING" [] p.k = "Boolean" -> "BOOLEAN"
                [] p.k = "Integer" -> "INT64" [] p.k = "Floating" -> "DOUBLE"
                [] p.k = "Timestamp" -> "TIMESTAMP",
   sub |-> IF p.k = "Text" THEN 1 ELSE 0, scale |-> 0]

\* Its row: after the word that says there is one, the nulls of version 13 and
\* the columns, each followed by its null indicator in the versions before.
RowItem(col, item, version) ==
  LET zero == CASE col.t = "VARYING" -> <<>> [] col.t = "BOOLEAN" -> <<0>> [] OTHER -> Zeros(8)
      v == IF item.null THEN zero ELSE item.v
      data == CASE col.t = "VARYING" -> be(Len(v), 4) \o Pad(v)
                [] col.t = "BOOLEAN" -> Pad(v)
                [] OTHER -> v
  IN IF version >= 13 THEN IF item.null THEN <<>> ELSE data
     ELSE data \o null_indicator(item.null)
RowOf(cols, items, version) ==
  be(1, 4)
  \o (IF version < 13 THEN <<>>
      ELSE [k \in 1..4 * ((Len(items) + 31) \div 32) |-> MapThenSumSet(LAMBDA b : 2 ^ b,
              {b \in 0..7 : 8 * (k - 1) + b < Len(items) /\ items[8 * (k - 1) + b + 1].null})])
  \o FlattenSeq([i \in DOMAIN cols |-> RowItem(cols[i], items[i], version)])

---------------------------------------------------------------------------
(* Rows                                                                    *)

\* Enough bytes, or is_incomplete: read more from the socket and parse again.
Missing == [got |-> FALSE]
get(bytes, n) ==
  IF Len(bytes) < n THEN Missing
  ELSE [got |-> TRUE, v |-> SubSeq(bytes, 1, n), rest |-> After(bytes, n)]
\* A length: any of more than three bytes is longer than a reply.
FromBe(b) == IF b[1] > 0 THEN 2 ^ 24 ELSE (b[2] * 256 + b[3]) * 256 + b[4]

\* Mutant of get_wire_bytes: the padding is skipped as far as it is there.
get_wire_bytesLoose(bytes) ==
  LET len == get(bytes, 4)
      data == IF len.got THEN get(len.rest, FromBe(len.v)) ELSE Missing
      pad == Padded(FromBe(len.v)) - FromBe(len.v)
  IN IF data.got THEN [data EXCEPT !.rest = After(@, pad)] ELSE Missing

get_wire_bytes(bytes) ==
  LET len == get(bytes, 4)
      data == IF len.got THEN get(len.rest, FromBe(len.v)) ELSE Missing
      pad == IF data.got THEN get(data.rest, Padded(FromBe(len.v)) - FromBe(len.v)) ELSE Missing
  IN IF pad.got THEN [data EXCEPT !.rest = pad.rest] ELSE Missing

get_column(var, bytes) ==
  CASE var.t = "VARYING" -> get_wire_bytes(bytes)
    [] var.t = "BOOLEAN" -> get(bytes, 4)
    [] OTHER -> get(bytes, 8)

NoBlob == <<-1>>

\* ParsedColumn, with into_column for a blob: text by its subtype.
column_value(var, v, blobs) ==
  CASE var.t = "VARYING" -> Val("Text", v)
    [] var.t = "INT64" -> Val("Integer", v)
    [] var.t = "DOUBLE" -> Val("Floating", v)
    [] var.t = "TIMESTAMP" -> Val("Timestamp", v)
    [] var.t = "BOOLEAN" -> Val("Boolean", IF v[1] = 1 THEN <<1>> ELSE <<0>>)
    [] var.t = "BLOB" -> Val(IF var.sub = 0 THEN "Binary" ELSE "Text",
                             IF \E i \in DOMAIN blobs : Id(i) = v
                             THEN blobs[CHOOSE i \in DOMAIN blobs : Id(i) = v] ELSE NoBlob)

NoRow == [got |-> FALSE, row |-> <<>>]

\* The columns from the i-th on.  With version 13 a null has no bytes and a value
\* no indicator.
parse_columns(xsqlda, bytes, version, map, blobs) ==
  LET from[st \in (1..Len(xsqlda) + 1) \X Seq(0..255)] ==
        LET i == st[1]
            skip == version >= 13 /\ Bit(map, i)
            col == IF skip THEN [got |-> TRUE, v |-> <<>>, rest |-> st[2]]
                   ELSE get_column(xsqlda[i], st[2])
            ind == IF version >= 13 \/ ~col.got THEN col ELSE get(col.rest, 4)
            null == skip \/ (version < 13 /\ ind.v # Zeros(4))
            more == from[<<i + 1, ind.rest>>]
        IN IF i > Len(xsqlda) THEN [got |-> TRUE, row |-> <<>>]
           ELSE IF ~ind.got \/ ~more.got THEN NoRow
           ELSE [more EXCEPT !.row =
                   <<IF null THEN NullVal ELSE column_value(xsqlda[i], col.v, blobs)>> \o @]
  IN from[<<1, bytes>>]

\* parse_sql_response of a reply that holds a row.
parse_sql_response(bytes, xsqlda, version, blobs) ==
  LET has_row == get(bytes, 4)
      map == IF ~has_row.got THEN Missing
             ELSE get(has_row.rest, IF version >= 13 THEN Padded((Len(xsqlda) + 7) \div 8) ELSE 0)
  IN IF ~map.got THEN NoRow
     ELSE parse_columns(xsqlda, map.rest, version, map.v, blobs)

---------------------------------------------------------------------------
(* Coercion of a described column: sqltype, subtype of a blob, scale       *)

Unsupported == "unsupported"

\* Mutant of as_number: a scaled number stays a number, without its scale.
as_numberUnscaled(var) == "INT64"

\* A whole number, or one with a scale, which is read as a float.
as_number(var) == IF var.scale = 0 THEN "INT64" ELSE "DOUBLE"

\* XSqlVar::coerce, with xsqlda_to_blr, which knows each type coerce leaves.
coerce(var) ==
  CASE var.t \in {"TEXT", "VARYING"} -> "VARYING"
    [] var.t \in {"SHORT", "LONG", "INT64"} -> as_number(var)
    [] var.t \in {"FLOAT", "DOUBLE"} -> "DOUBLE"
    [] var.t \in {"TIMESTAMP", "TYPE_DATE", "TYPE_TIME"} -> "TIMESTAMP"
    [] var.t = "BLOB" -> IF var.sub =< 1 THEN "BLOB" ELSE Unsupported
    [] var.t = "BOOLEAN" -> "BOOLEAN"
    [] OTHER -> Unsupported

\* What the wire client makes of a column, and the native one: from_xsqlvar with
\* to_column.
wire_kind(var) ==
  LET t == coerce(var)
  IN IF t = Unsupported THEN t
     ELSE column_value([var EXCEPT !.t = t], IF t = "BLOB" THEN Id(1) ELSE <<1>>, <<<<>>>>).k
native_kind(var) ==
  CASE var.t = "BOOLEAN" -> "Boolean"
    [] var.t = "BLOB" -> IF var.sub > 1 THEN Unsupported ELSE IF var.sub =< 0 THEN "Binary" ELSE "Text"
    [] var.t \in {"TEXT", "VARYING"} -> "Text"
    [] var.t \in {"SHORT", "LONG", "INT64"} -> IF var.scale = 0 THEN "Integer" ELSE "Floating"
    [] var.t \in {"FLOAT", "DOUBLE"} -> "Floating"
    [] var.t \in {"TIMESTAMP", "TYPE_DATE", "TYPE_TIME"} -> "Timestamp"
    [] OTHER -> Unsupported

---------------------------------------------------------------------------
(* Affected rows                                                           *)

isc_info_end == 1
isc_info_sql_records == 23
select_count == 13
insert_count == 14
update_count == 15
delete_count == 16

\* The server's answer to isc_info_sql_records.
Counted(counts) ==
  FlattenSeq([i \in DOMAIN counts |-> <<counts[i][1], 4, 0>> \o le(counts[i][2], 4)])
Records(counts) ==
  IF counts = <<>> THEN <<isc_info_end>>
  ELSE <<isc_info_sql_records>> \o le(Len(Counted(counts)) + 1, 2) \o Counted(counts) \o <<isc_info_end>>

\* The items up to the end: the wire client takes the length for four, the
\* native one reads it.
InvalidRows == -1
AddUp(bytes, native) ==
  LET from[i \in 1..Len(bytes) + 1] ==
        LET len == IF native THEN FromLe(SubSeq(bytes, i + 1, i + 2)) ELSE 4
            count == IF bytes[i] = select_count THEN 0 ELSE FromLe(SubSeq(bytes, i + 3, i + 2 + len))
            more == from[i + 3 + len]
        IN IF i > Len(bytes) THEN InvalidRows
           ELSE IF bytes[i] = isc_info_end THEN 0
           ELSE IF \/ bytes[i] \notin {select_count, insert_count, update_count, delete_count}
                   \/ Len(bytes) < i + 2 \/ len \notin {1, 2, 4} \/ Len(bytes) < i + 2 + len
                   \/ more = InvalidRows
                THEN InvalidRows ELSE count + more
  IN from[1]
parse_info_sql_affected_rows(bytes) ==
  IF Head(bytes) = isc_info_end THEN 0 ELSE AddUp(After(bytes, 3), FALSE)
native_affected_rows(bytes) ==
  IF Head(bytes) # isc_info_sql_records THEN 0 ELSE AddUp(After(bytes, 3), TRUE)

===========================================================================
