--------------------------- MODULE MCSnapshotTables ---------------------------
(***************************************************************************)
(* Each blob moves every collection at once, and differently: between them *)
(* the blobs take each key through appearing, changing, staying, leaving   *)
(* and coming back.                                                        *)
(***************************************************************************)
EXTENDS SnapshotTables, TLC

Validator(stake, paused, unstaking, committees) ==
    [stake |-> stake, paused |-> paused, unstaking |-> unstaking,
     profile |-> "p", committees |-> committees]

Pool(amount, total, points) == [amount |-> amount, total |-> total, points |-> points]

Order(terms, send, receive, seller) ==
    [terms |-> terms, send |-> send, receive |-> receive, seller |-> seller]

Event(type, address) == [type |-> type, address |-> address]

MCBlobs == {
    EmptyBlob,
    [EmptyBlob EXCEPT
        !.txs = <<"send">>,
        !.accounts = "a" :> 1,
        !.validators = "v" :> Validator(1, 0, 0, {1}),
        !.nonSigners = "v" :> 1,
        !.doubleSigners = "v" :> 1,
        !.pools = 7 :> Pool(10, 1, "a" :> 1),
        !.orders = "o" :> Order(1, None, None, "s"),
        !.prices = 7 :> 5,
        !.committees = 1 :> 1,
        !.params = 1, !.supply = 1],
    [EmptyBlob EXCEPT
        !.txs = <<"send", "stake">>,
        !.events = {Event("slash", "v"), Event("reward", None)},
        !.accounts = "a" :> 2,
        !.validators = "v" :> Validator(1, 5, 0, {1, 2}),
        !.subsidized = {1},
        !.nonSigners = "v" :> 2,
        !.doubleSigners = "v" :> 1,
        !.pools = 7 :> Pool(12, 3, "a" :> 1 @@ "b" :> 2),
        !.orders = "o" :> Order(1, "b", None, "s"),
        !.prices = 7 :> 6,
        !.committees = 1 :> 2,
        !.params = 1, !.supply = 2],
    [EmptyBlob EXCEPT
        !.events = {Event("reward", "v")},
        !.accounts = "a" :> 2 @@ "b" :> 1,
        !.validators = "v" :> Validator(1, 5, 0, {2}),
        !.doubleSigners = "v" :> 2,
        !.pools = 7 :> Pool(11, 3, "b" :> 3),
        !.orders = "o" :> Order(1, "b", "b", "s"),
        !.prices = 7 :> 5 @@ 8 :> 1,
        !.committees = 1 :> 2 @@ 2 :> 1,
        !.params = 2, !.supply = 1],
    [EmptyBlob EXCEPT
        !.accounts = "b" :> 1,
        !.validators = "v" :> Validator(2, 0, 9, {}),
        !.nonSigners = "w" :> 1,
        !.pools = 7 :> Pool(11, 3, "a" :> 3),
        !.orders = "o" :> Order(2, "b", "b", "t"),
        !.prices = 8 :> 1,
        !.committees = 2 :> 1,
        !.params = 2, !.supply = 1]}
=============================================================================
