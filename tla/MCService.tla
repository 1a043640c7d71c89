------------------------------ MODULE MCService -------------------------------
(***************************************************************************)
(* A bookshop: books with authors, who have mentors; reviews of books by   *)
(* authors.  The requests use each construct of CQN the modules know, and  *)
(* combine those whose translations meet: filters below filters, paths to  *)
(* keys beside paths to other elements, EXISTS below EXISTS.               *)
(***************************************************************************)
EXTENDS ServiceProperties

(* The model: for every element what differs from a plain one. *)
Plainly == [kind |-> "scalar", key |-> FALSE, text |-> FALSE, parts |-> <<>>, target |-> "",
            one |-> TRUE, on |-> <<>>, value |-> <<>>, enum |-> <<>>, default |-> Null,
            onInsert |-> FALSE, onUpdate |-> FALSE]
MCSearched == <<[path |-> <<"title">>, on |-> TRUE], [path |-> <<"author", "name">>, on |-> TRUE]>>
MCToken(t) ==
    [Token EXCEPT !.t = IF Head(t) \in {"op", "val"} THEN Head(t) ELSE "ref",
                  !.op = IF Head(t) = "op" THEN t[2] ELSE "",
                  !.val = IF Head(t) = "val" THEN t[2] ELSE 0,
                  !.ref = IF Head(t) \in {"op", "val"} THEN <<>> ELSE Each(t, Step)]
MCElement(e) ==
    [Elem EXCEPT
        !.kind = e.kind, !.full = <<e.name>>, !.key = e.key, !.text = e.text, !.target = e.target,
        !.one = e.one, !.keys = IF e.kind = "assoc" /\ e.on = <<>> THEN <<"ID">> ELSE <<>>,
        !.on = Each(e.on, MCToken), !.value = Each(e.value, MCToken), !.enum = e.enum,
        !.elements = Each(e.parts, LAMBDA part : [Elem EXCEPT !.full = <<e.name, part>>]),
        !.default = e.default, !.onInsert = e.onInsert, !.onUpdate = e.onUpdate]
MCEntity(name, elements) ==
    [Elem EXCEPT !.kind = "entity", !.full = <<name>>,
                 !.elements = Each(elements, LAMBDA d : MCElement(d @@ Plainly)),
                 !.search = IF name = "Books" THEN MCSearched ELSE <<>>]

MCModel ==
    [Authors |->
        <<[name |-> "ID", key |-> TRUE],
          [name |-> "name", text |-> TRUE],
          [name |-> "addr", kind |-> "struct", parts |-> <<"city", "zip">>],
          [name |-> "mentor", kind |-> "assoc", target |-> "Authors"],
          [name |-> "books", kind |-> "assoc", target |-> "Books", one |-> FALSE,
           on |-> <<<<"books", "author">>, <<"op", "=">>, <<"$self">>>>]>>,
     Books |->
        <<[name |-> "ID", key |-> TRUE],
          [name |-> "title", text |-> TRUE],
          [name |-> "stock", default |-> 0],
          [name |-> "status", enum |-> [open |-> 1, sold |-> 2]],
          [name |-> "author", kind |-> "assoc", target |-> "Authors"],
          [name |-> "writer", value |-> <<<<"author", "name">>>>],
          [name |-> "reviews", kind |-> "assoc", target |-> "Reviews", one |-> FALSE,
           on |-> <<<<"reviews", "book">>, <<"op", "=">>, <<"$self">>>>],
          [name |-> "praise", kind |-> "assoc", target |-> "Reviews", one |-> FALSE,
           on |-> <<<<"praise", "book">>, <<"op", "=">>, <<"$self">>, <<"op", "and">>,
                    <<"praise", "rating">>, <<"op", ">">>, <<"val", 2>>>>],
          [name |-> "made", onInsert |-> TRUE],
          [name |-> "touched", onInsert |-> TRUE, onUpdate |-> TRUE]>>,
     Reviews |->
        <<[name |-> "ID", key |-> TRUE],
          [name |-> "rating"],
          [name |-> "book", kind |-> "assoc", target |-> "Books"],
          [name |-> "critic", kind |-> "assoc", target |-> "Authors"]>>,
     Prices |->
        <<[name |-> "ID", key |-> TRUE],
          [name |-> "currency", key |-> TRUE, default |-> 1],
          [name |-> "amount"],
          [name |-> "made", onInsert |-> TRUE],
          [name |-> "touched", onInsert |-> TRUE, onUpdate |-> TRUE]>>]
MCDefinitions ==
    [name \in {"Authors", "Books", "Reviews", "Prices"} |-> MCEntity(name, MCModel[name])]

MCTechnicalAlias == [Authors |-> "$a", Books |-> "$b", Reviews |-> "$r", author |-> "$a",
                     mentor |-> "$m", books |-> "$b", reviews |-> "$r", praise |-> "$p",
                     book |-> "$b", critic |-> "$c", addr |-> "$a"]

Author(id, name, city, zip, mentor) ==
    (<<"ID">> :> id) @@ (<<"name">> :> name) @@ (<<"addr", "city">> :> city)
    @@ (<<"addr", "zip">> :> zip) @@ (<<"mentor", "ID">> :> mentor)
Book(id, title, stock, status, author) ==
    (<<"ID">> :> id) @@ (<<"title">> :> title) @@ (<<"stock">> :> stock)
    @@ (<<"status">> :> status) @@ (<<"author", "ID">> :> author)
    @@ (<<"made">> :> 0) @@ (<<"touched">> :> 0)
Review(id, rating, book, critic) ==
    (<<"ID">> :> id) @@ (<<"rating">> :> rating) @@ (<<"book", "ID">> :> book)
    @@ (<<"critic", "ID">> :> critic)
Price(id, currency, amount) ==
    (<<"ID">> :> id) @@ (<<"currency">> :> currency) @@ (<<"amount">> :> amount)
    @@ (<<"made">> :> 0) @@ (<<"touched">> :> 0)
MCTables ==
    [Prices |-> {Price(1, 1, 30)},
     Authors |-> {Author(1, 11, 21, 31, Null), Author(2, 12, 22, 31, 1), Author(3, 11, Null, 32, 2)},
     Books |-> {Book(1, 41, 5, 1, 1), Book(2, 42, 0, 2, 2), Book(3, 11, 5, 1, Null)},
     Reviews |-> {Review(1, 3, 1, 2), Review(2, 1, 1, 3), Review(3, 3, 2, 2), Review(4, 2, 3, Null)}]

P(ids) == Each(ids, Step)
R(ids) == Ref(P(ids))
From1(name) == [Query EXCEPT !.from = <<Step(name)>>]
Books == From1("Books")
Authors == From1("Authors")
Reviews == From1("Reviews")
Cmp(ids, op, v) == <<R(ids), Op(op), Val(v)>>
And == <<Op("and")>>
Or == <<Op("or")>>
Ex(path) == <<Op("exists"), Ref(path)>>

MCReads ==
    [\* joins and foreign keys
     path |-> [Books EXCEPT !.columns = <<R(<<"ID">>), R(<<"author", "name">>),
                                          R(<<"author", "mentor", "name">>)>>],
     fk |-> [Books EXCEPT !.columns = <<R(<<"author", "ID">>), R(<<"author">>)>>,
                          !.where = Cmp(<<"author", "ID">>, "=", 2)],
     fkjoin |-> [Books EXCEPT !.columns = <<R(<<"ID">>), Named(R(<<"author", "mentor", "ID">>), "m")>>,
                              !.where = Cmp(<<"author", "mentor", "ID">>, "=", 1)],
     samepath |-> [Reviews EXCEPT !.columns = <<R(<<"ID">>), R(<<"critic", "name">>)>>,
                                  !.where = Cmp(<<"book", "author", "name">>, "=", 11) \o Or
                                            \o Cmp(<<"critic", "name">>, "=", 12)],
     tomany |-> [Books EXCEPT !.columns = <<R(<<"ID">>), R(<<"reviews", "rating">>)>>,
                              !.where = Cmp(<<"reviews", "critic", "name">>, "=", 12)],
     filters |-> [Books EXCEPT !.columns =
                    <<R(<<"ID">>),
                      Named(Ref(<<Filter("reviews", Cmp(<<"rating">>, "=", 1)), Step("ID")>>), "low"),
                      Named(Ref(<<Filter("reviews", Cmp(<<"rating">>, "=", 3)), Step("ID")>>), "high")>>],
     filterpath |-> [Books EXCEPT !.columns = <<R(<<"ID">>)>>,
                       !.where = <<Ref(<<Filter("author", Cmp(<<"name">>, "=", 12)), Step("ID")>>),
                                   Op("="), Val(2)>>],
     praise |-> [Books EXCEPT !.columns = <<R(<<"ID">>), R(<<"praise", "rating">>)>>],
     \* where
     precedence |-> [Authors EXCEPT !.columns = <<R(<<"ID">>)>>,
                        !.from = <<Filter("Authors", Cmp(<<"ID">>, "=", 1) \o Or
                                                     \o Cmp(<<"mentor", "ID">>, "=", 1))>>,
                        !.where = Cmp(<<"name">>, "=", 12) \o Or \o Cmp(<<"addr", "zip">>, "=", 31)],
     nothing |-> [Books EXCEPT !.columns = <<R(<<"ID">>)>>,
                     !.where = Cmp(<<"author", "name">>, "=", Null)],
     notin |-> [Books EXCEPT !.columns = <<R(<<"ID">>)>>,
                  !.where = <<R(<<"author", "ID">>), Op("not"), Op("in"), List(<<Val(1), Val(9)>>)>>],
     symbols |-> [Books EXCEPT !.columns = <<R(<<"ID">>)>>,
                    !.where = <<R(<<"status">>), Op("="), Enum("sold")>> \o Or
                              \o <<R(<<"status">>), Op("in"), List(<<Enum("sold"), Val(3)>>)>>],
     structs |-> [Authors EXCEPT !.columns = <<R(<<"ID">>), R(<<"mentor", "addr">>)>>,
                     !.where = <<R(<<"addr">>), Op("!="), R(<<"mentor", "addr">>)>>],
     assocs |-> [Reviews EXCEPT !.columns = <<R(<<"ID">>)>>,
                    !.where = <<R(<<"critic">>), Op("="), R(<<"book", "author">>)>>],
     exists |-> [Authors EXCEPT !.columns = <<R(<<"ID">>)>>,
                    !.where = Ex(<<Filter("books", Ex(P(<<"reviews">>)) \o Or
                                                   \o Cmp(<<"stock">>, "=", 0))>>)],
     existspath |-> [Authors EXCEPT !.columns = <<R(<<"ID">>)>>,
                        !.where = Ex(<<Step("books"), Filter("reviews", Cmp(<<"critic", "name">>, "=", 12))>>)],
     notexists |-> [Books EXCEPT !.columns = <<R(<<"ID">>)>>,
                       !.where = <<Op("not")>> \o Ex(<<Filter("praise", Cmp(<<"rating">>, "=", 3) \o Or
                                                                       \o Cmp(<<"rating">>, "=", 1))>>)],
     existskey |-> [Books EXCEPT !.columns = <<R(<<"ID">>)>>,
                       !.where = Ex(<<Filter("reviews", <<Val(3)>>)>>)],
     subquery |-> [Books EXCEPT !.columns = <<R(<<"ID">>)>>,
                      !.where = <<R(<<"author", "ID">>), Op("in"),
                                  Sub([Authors EXCEPT !.columns = <<R(<<"ID">>)>>,
                                                      !.where = Cmp(<<"mentor", "name">>, "=", 11)])>>],
     correlated |-> [Books EXCEPT !.alias = "B", !.columns = <<R(<<"ID">>)>>,
                        !.where = <<R(<<"B", "stock">>), Op("="),
                                    Sub([Reviews EXCEPT !.columns = <<Named(Func("max", <<R(<<"rating">>)>>), "m")>>,
                                            !.where = <<R(<<"book", "ID">>), Op("="), R(<<"B", "ID">>)>>])>>],
     \* FROM
     along |-> [Query EXCEPT !.from = <<Filter("Authors", Cmp(<<"name">>, "=", 11)), Step("books")>>,
                             !.columns = <<R(<<"ID">>), R(<<"author", "name">>)>>,
                             !.where = Cmp(<<"stock">>, "=", 5)],
     alongkey |-> [Query EXCEPT !.from = <<Filter("Books", <<Val(1)>>), Filter("reviews", Cmp(<<"rating">>, "=", 3) \o Or
                                                    \o Cmp(<<"critic", "ID">>, "=", 3))>>,
                                !.columns = <<R(<<"ID">>)>>,
                                !.where = Cmp(<<"rating">>, "=", 1) \o Or \o Cmp(<<"ID">>, "=", 1)],
     alongpath |-> [Query EXCEPT !.from = <<Filter("Reviews", Cmp(<<"book", "author", "name">>, "=", 12)),
                                            Step("critic"), Step("mentor")>>,
                                 !.columns = <<R(<<"ID">>)>>],
     \* columns
     all |-> Books,
     star |-> [Books EXCEPT !.columns = <<Named(R(<<"author", "name">>), "x"), Star,
                                          Named(R(<<"stock">>), "title")>>],
     calc |-> [Books EXCEPT !.columns = <<R(<<"ID">>), R(<<"writer">>)>>,
                            !.where = Cmp(<<"writer">>, "=", 12)],
     calcpath |-> [Reviews EXCEPT !.columns = <<R(<<"ID">>), R(<<"book", "writer">>)>>],
     inline |-> [Books EXCEPT !.columns = <<R(<<"ID">>),
                    Inline(P(<<"author">>), <<R(<<"name">>), Inline(P(<<"addr">>), <<R(<<"city">>)>>)>>)>>],
     inlinestar |-> [Reviews EXCEPT !.columns = <<Inline(P(<<"critic">>), <<Star>>)>>],
     self |-> [Books EXCEPT !.columns = <<Named(R(<<"author", "name">>), "n"), Named(R(<<"$self", "n">>), "m"),
                                          R(<<"ID">>)>>,
                            !.where = Cmp(<<"$self", "n">>, "=", 11)],
     structexpand |-> [Authors EXCEPT !.columns = <<R(<<"ID">>),
                          Expand(P(<<"addr">>), <<R(<<"city">>)>>),
                          Inline(P(<<"mentor">>), <<R(<<"ID">>), Expand(P(<<"addr">>), <<Star>>)>>)>>],
     replace |-> [Books EXCEPT !.columns = <<R(<<"ID">>),
                     Inline(P(<<"author">>), <<R(<<"name">>), Star, Named(R(<<"addr", "zip">>), "addr")>>)>>],
     column |-> [Books EXCEPT !.alias = "B", !.columns = <<R(<<"ID">>),
                    Named(Sub([Authors EXCEPT !.columns = <<Named(Func("max", <<R(<<"name">>)>>), "m")>>,
                                  !.where = <<R(<<"mentor", "ID">>), Op("="), R(<<"B", "author", "ID">>)>>]), "m")>>],
     qualified |-> [Books EXCEPT !.alias = "B", !.columns = <<R(<<"ID">>)>>,
                       !.where = Cmp(<<"B", "author", "mentor", "name">>, "=", 11) \o Or
                                 \o Cmp(<<"B", "author", "name">>, "=", 11)],
     emptylist |-> [Books EXCEPT !.columns = <<R(<<"ID">>)>>,
                       !.where = Cmp(<<"stock">>, "=", 5) \o And
                                 \o <<R(<<"ID">>), Op("not"), Op("in"), List(<<>>)>>],
     \* expand
     toone |-> [Books EXCEPT !.columns = <<R(<<"ID">>),
                    Expand(P(<<"author">>), <<R(<<"name">>),
                        Expand(P(<<"mentor">>), <<Star>>)>>)>>],
     tomanys |-> [Authors EXCEPT !.columns = <<R(<<"ID">>),
                    [Expand(P(<<"books">>), <<R(<<"title">>), R(<<"author", "name">>),
                        Expand(P(<<"reviews">>), <<R(<<"rating">>)>>)>>)
                      EXCEPT !.query = <<>>]>>],
     modifiers |-> [Authors EXCEPT !.columns = <<R(<<"ID">>),
                    [Expand(P(<<"books">>), <<R(<<"ID">>)>>)
                      EXCEPT !.query = [Query EXCEPT !.where = Cmp(<<"stock">>, "=", 0) \o Or
                                                               \o Cmp(<<"author", "name">>, "=", 11),
                                                     !.orderBy = <<R(<<"ID">>)>>, !.limit = 1]]>>],
     expandpath |-> [Reviews EXCEPT !.columns = <<R(<<"ID">>),
                        Expand(P(<<"book", "author">>), <<R(<<"name">>)>>),
                        Expand(P(<<"book", "reviews">>), <<R(<<"ID">>)>>)>>],
     expandfilter |-> [Books EXCEPT !.columns = <<R(<<"ID">>),
                        Expand(<<Filter("reviews", Cmp(<<"critic", "name">>, "=", 12))>>, <<R(<<"rating">>)>>)>>],
     \* groups, order, limit, search
     groups |-> [Books EXCEPT !.columns = <<R(<<"author", "name">>), Named(Func("count", <<>>), "n"),
                                            Named(Func("max", <<R(<<"stock">>)>>), "s")>>,
                              !.groupBy = <<R(<<"author", "name">>)>>,
                              !.having = <<Func("max", <<R(<<"stock">>)>>), Op(">"), Val(0)>>],
     groupexpand |-> [Reviews EXCEPT !.columns = <<Expand(P(<<"critic">>), <<R(<<"name">>)>>),
                                                   Named(Func("count", <<>>), "n")>>,
                                     !.groupBy = <<R(<<"critic", "name">>)>>],
     ordered |-> [Books EXCEPT !.columns = <<Named(R(<<"author", "name">>), "n"), R(<<"ID">>)>>,
                     !.orderBy = <<[R(<<"n">>) EXCEPT !.desc = TRUE], R(<<"author", "mentor", "ID">>),
                                   R(<<"ID">>)>>],
     page |-> [Books EXCEPT !.columns = <<R(<<"ID">>)>>, !.orderBy = <<R(<<"stock">>), R(<<"ID">>)>>,
                            !.limit = 2, !.offset = 1],
     first |-> [Books EXCEPT !.columns = <<R(<<"ID">>)>>, !.where = Cmp(<<"stock">>, "=", 5),
                             !.orderBy = <<R(<<"ID">>)>>, !.one = TRUE, !.offset = 1],
     none |-> [Books EXCEPT !.columns = <<R(<<"ID">>)>>, !.where = Cmp(<<"stock">>, "=", 1),
                            !.orderBy = <<R(<<"ID">>)>>, !.one = TRUE],
     fullpage |-> [Reviews EXCEPT !.columns = <<R(<<"ID">>)>>, !.orderBy = <<R(<<"ID">>)>>, !.limit = 2],
     search |-> [Books EXCEPT !.columns = <<R(<<"ID">>)>>, !.search = <<Val(11)>>,
                              !.where = Cmp(<<"stock">>, "=", 5) \o Or \o Cmp(<<"stock">>, "=", 0)],
     plainsearch |-> [Authors EXCEPT !.columns = <<R(<<"ID">>)>>, !.search = <<Val(11)>>,
                                     !.where = Cmp(<<"ID">>, "=", 2) \o Or \o Cmp(<<"ID">>, "=", 3)]]

(* The rows of a count have no columns that $self could stand for. *)
MCCounted == DOMAIN MCReads \ {"self"}

(* A foreign key that may be NULL, compared by `!=`. *)
MCUnequalReads ==
    [other |-> [Books EXCEPT !.columns = <<R(<<"ID">>)>>, !.where = Cmp(<<"author", "ID">>, "!=", 1)]]
MCUncounted == {}

Set(name, value) == [name |-> name, value |-> value]
MCChanges ==
    [sell |-> [Books EXCEPT !.kind = "UPDATE", !.where = Cmp(<<"ID">>, "=", 1) \o Or \o Cmp(<<"stock">>, "=", 0),
                            !.data = <<Set(<<"status">>, Val(2))>>],
     restock |-> [Books EXCEPT !.kind = "UPDATE",
                    !.from = <<Filter("Books", Cmp(<<"author", "name">>, "=", 12) \o Or \o Cmp(<<"ID">>, "=", 3))>>,
                    !.where = Cmp(<<"stock">>, "=", 0) \o Or \o Cmp(<<"title">>, "=", 42),
                    !.data = <<Set(<<"stock">>, Val(7))>>],
     drop |-> [Reviews EXCEPT !.kind = "DELETE", !.where = Cmp(<<"book", "author", "name">>, "=", 11)],
     clear |-> [Query EXCEPT !.kind = "DELETE", !.from = <<Filter("Books", <<Val(1)>>), Step("reviews")>>,
                             !.where = Cmp(<<"rating">>, "=", 1)]]

MCPrice == (<<"ID">> :> 1) @@ (<<"amount">> :> 40)
MCPriceElsewhere == MCPrice @@ (<<"currency">> :> 2)
MCEntries ==
    {[entity |-> "Books", entry |-> (<<"ID">> :> 4) @@ (<<"title">> :> 41) @@ (<<"author", "ID">> :> 2)],
     [entity |-> "Books", entry |-> (<<"ID">> :> 2) @@ (<<"stock">> :> 1)],
     [entity |-> "Prices", entry |-> MCPrice], [entity |-> "Prices", entry |-> MCPriceElsewhere]}
=============================================================================
