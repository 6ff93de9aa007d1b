----------------------------- MODULE MCSession -----------------------------
(* Instances of Session. *)
EXTENDS Session

Req(name, args) == [name |-> name, args |-> args]

\* Addresses and lengths contain command bytes of their own (0xd1, 0xd7, 0xfd).
LoaderRequests == {Req("GetHwCode", <<>>), Req("GetTargetConfig", <<>>),
                Req("Read32", <<0, 0>>), Req("Read32", <<209, 2>>),
                Req("SendDA", <<215, 2, 0, <<253, 0>>>>), Req("JumpDA", <<215>>)}
DaRequests == {Req("DA1Setup", <<>>), Req("Write32", <<215, -1>>)}
AllRequests == LoaderRequests \cup DaRequests
ConstLeftovers == {<<>>, <<95>>, <<250>>, <<175, 250>>, <<245, 175, 250>>}
=============================================================================
