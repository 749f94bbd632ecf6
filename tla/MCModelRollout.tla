--------------------------- MODULE MCModelRollout ---------------------------
(* A small instance of ModelRollout for TLC. Two trainers disagree about     *)
(* version 1: one of its models cannot be loaded, the other was trained for  *)
(* another boundary. The rest of the uploads break the protocol, each in one *)
(* of the ways receive and validate tell apart.                              *)
EXTENDS ModelRollout

a == <<"p", "q">>
b == <<"r", "q">>
MCBodies == {a, b}

Upload(meta, body) == <<MetaMsg(meta)>> \o Chunks(body)

Good == {Upload(Meta(1, a, 1), a), Upload(Meta(1, b, 2), b), Upload(Meta(2, a, 1), a)}

Of2 == Meta(2, a, 1)

Bad == {
    <<>>, Chunks(a), <<EmptyMsg>>,
    Upload(Of2, a) \o <<MetaMsg(Of2)>>,
    Upload(Of2, a) \o Chunks(a),
    Upload(Of2, a) \o <<ErrorMsg>>,
    Upload(Of2, SubSeq(a, 1, 1)),
    Upload(Of2, b),
    Upload([Of2 EXCEPT !.size = MaxModelBytes + 1], a),
    Upload(Meta(0, a, 1), a),
    Upload(Meta(2, <<>>, 1), <<>>),
    Upload(Meta(2, a, 0), a),
    Upload([Of2 EXCEPT !.complete = FALSE], a)}

MCUploads == Good \cup Bad
=============================================================================
