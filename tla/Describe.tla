------------------------------ MODULE Describe ------------------------------
(***************************************************************************)
(* Preparing a statement in the wire client: the server describes the      *)
(* columns in replies of BUFFER_LENGTH bytes, cut between two items when   *)
(* they are full, and the client asks on from where a reply ended; and the *)
(* errors of a reply, from the items of its status vector to one message.  *)
(***************************************************************************)
EXTENDS Integers, Sequences, SequencesExt

BUFFER_LENGTH == 1024

\* XSqlVar: a described column.  The numbers take seven bytes in a reply, a name
\* three and its own.
Numbers == <<"sqltype", "sqlsubtype", "scale", "data_length", "null_ind">>
Names == <<"field_name", "relation_name", "owner_name", "alias_name">>
Default == [f \in Range(Numbers) \cup Range(Names) |-> 0]

\* The server: the items that describe column i, whose values are all i, and
\* whose names take n bytes each.
Items(i, n) ==
  <<[f |-> "sqlda_seq", i |-> i, len |-> 7]>>
  \o [k \in DOMAIN Numbers |-> [f |-> Numbers[k], i |-> i, len |-> 7]]
  \o [k \in DOMAIN Names |-> [f |-> Names[k], i |-> i, len |-> 3 + n]]
  \o <<[f |-> "describe_end", i |-> i, len |-> 1]>>

SizeOf(items) == FoldSeq(LAMBDA item, sum : item.len + sum, 0, items)

\* Its reply, for the columns from first on: the statement type and the number of
\* parameters, a byte for each of those, the number of columns and the items of as
\* many as there is room for, with what ended them.
Ends(params, first) == IF first > params THEN 0 ELSE params - (IF first = 0 THEN 0 ELSE first - 1)
Header(params, first) == 7 + 8 + Ends(params, first) + 8
Reply(widths, params, first) ==
  LET all == FlattenSeq([i \in DOMAIN widths |-> IF i < first THEN <<>> ELSE Items(i, widths[i])])
      room == BUFFER_LENGTH - 1 - Header(params, first)
      fit == {n \in 0..Len(all) : SizeOf(SubSeq(all, 1, n)) =< room}
      n == CHOOSE n \in fit : \A m \in fit : m =< n
  IN IF room < 0 THEN [header |-> FALSE]
     ELSE [header |-> TRUE, param_count |-> params, items |-> SubSeq(all, 1, n),
           truncated |-> n < Len(all)]

\* parse_select_items, one item: the number of a column adds it when it is new,
\* every other item is filed under that number, the end of a column does nothing.
parse_item(item, xsqlda) ==
  IF item.f = "sqlda_seq"
    THEN IF item.i - 1 >= Len(xsqlda) THEN Append(xsqlda, Default) ELSE xsqlda
  ELSE IF item.f = "describe_end" THEN xsqlda
  ELSE [xsqlda EXCEPT ![item.i] = [@ EXCEPT ![item.f] = item.i]]

\* parse_xsqlda, of a reply in which the parameters end where the columns begin.
parse_xsqlda(reply, xsqlda) == FoldLeft(LAMBDA vars, item : parse_item(item, vars), xsqlda, reply.items)

\* Mutant of next_index: from the first column that is not there.
next_indexBehind(xsqlda) == Len(xsqlda) + 1

\* The last column there may have been cut: it is described again.
next_index(xsqlda) == Len(xsqlda)

\* prepare_statement, from what it has of the columns and the place it asks on
\* from, until a reply is not truncated.  A reply that brings nothing new is
\* followed by the same request, and so on.
prepare_statement(widths, params) ==
  LET Prepare[st \in Seq([DOMAIN Default -> Nat]) \X Nat] ==
        LET xsqlda == st[1]  first == st[2]
            reply == Reply(widths, params, first)
            vars == parse_xsqlda(reply, xsqlda)
        IN IF ~reply.header \/ Len(widths) > 1024 THEN [end |-> "invalid", vars |-> xsqlda]
           ELSE IF ~reply.truncated THEN [end |-> "done", vars |-> vars]
           ELSE IF vars = xsqlda /\ next_index(vars) = first THEN [end |-> "never", vars |-> vars]
           ELSE Prepare[<<vars, next_index(vars)>>]
  IN Prepare[<<<<>>, 0>>]

---------------------------------------------------------------------------
(* Errors.  A message is its text in pieces: <<n>> is the place of the     *)
(* n-th argument, @n, <<0, k>> a word.                                     *)

isc_sqlerr == 335544436
UnknownItem == [code |-> -1, msg |-> <<<<0>>>>]

\* gds_to_msg: the text of an error, of as many arguments as the error says.
gds_to_msg(code) == code.text

\* str::replace: every place of the n-th argument in the whole message.
replace(message, n, arg) ==
  FlattenSeq([i \in DOMAIN message |-> IF message[i] = <<n>> THEN arg ELSE <<message[i]>>])

\* Mutant of status_item: the arguments are counted on from one error to the next.
status_itemGoesOn(st, item) ==
  CASE item.t = "gds" -> [st EXCEPT !.gds_code = item.code, !.message = @ \o gds_to_msg(item)]
    [] item.t = "interpreted" -> [st EXCEPT !.message = @ \o item.arg]
    [] item.t \in {"number", "string"} ->
         [st EXCEPT !.num_arg = @ + 1, !.message = replace(@, st.num_arg + 1, item.arg)]
    [] OTHER -> st

\* parse_status_vector, one item: an error begins, with its text behind what is
\* there; an argument of it, put where the message has its number; the code of the
\* statement, the number behind the error that announces it.
status_item(st, item) ==
  CASE item.t = "gds" ->
         IF item.code = 0 THEN [st EXCEPT !.gds_code = 0]
         ELSE [st EXCEPT !.gds_code = item.code, !.message = @ \o gds_to_msg(item), !.num_arg = 0]
    [] item.t \in {"number", "string"} ->
         [st EXCEPT !.num_arg = @ + 1, !.message = replace(@, st.num_arg + 1, item.arg),
                    !.sql_code = IF item.t = "number" /\ st.gds_code = isc_sqlerr
                                 THEN item.n ELSE @]
    [] item.t = "interpreted" -> [st EXCEPT !.message = @ \o item.arg]
    [] item.t = "sql_state" -> st
    [] OTHER -> [st EXCEPT !.unknown = TRUE]
parse_status_vector(items) ==
  LET st == FoldLeft(status_item,
              [gds_code |-> 0, num_arg |-> 0, message |-> <<>>, sql_code |-> -1, unknown |-> FALSE], items)
  IN IF st.unknown THEN UnknownItem ELSE [code |-> st.sql_code, msg |-> st.message]

=============================================================================
