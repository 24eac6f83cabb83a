----------------------------- MODULE MCModeration -----------------------------
(* Requests that meet on two chunks and one image: a string, several       *)
(* parts, several chunks to a part, an empty text, a list without parts.   *)
EXTENDS Moderation, TLC

CONSTANTS m1, m2, hate, violence, t1, t2, img

Text(s) == [kind |-> "string", chunks |-> s]
List(ps) == [kind |-> "parts", parts |-> ps]
Part(type, s) == [type |-> type, chunks |-> s]

SomeRequests ==
  { << List(<<Part("text", <<t1, t2>>), Part("image_url", <<img>>)>>), Text(<<t2>>) >>,
    << Text(<<>>), List(<<Part("text", <<>>), Part("text", <<t1>>)>>),
       List(<<Part("image_url", <<img>>)>>) >>,
    << Text(<<t1>>), List(<<>>) >>,
    << List(<<Part("text", <<t2>>), Part("other", <<>>)>>) >> }

Found(h, v) == (hate :> h) @@ (violence :> v)
SomeAnalyses ==
  (t1 :> {Found(0, 1)}) @@ (t2 :> {Found(1, 0)}) @@ (img :> {Found(0, 0), Found(0, 2)})
===============================================================================
