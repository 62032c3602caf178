------------------------- MODULE MCStreamedSession -------------------------
(* Four experts in two layers and one the manifest lacks; a router that may
   pick any expert, and trace files of up to five lines, one of them empty. *)
EXTENDS StreamedSession

CONSTANTS xa, xb, xc, xd, missing

MCExpertBytes == xa :> 1 @@ xb :> 1 @@ xc :> 1 @@ xd :> 2
MCLayers == xa :> 1 @@ xb :> 1 @@ xc :> 2 @@ xd :> 2 @@ missing :> 2
AnyOne == {<<xa>>, <<xb>>, <<xd>>}

Route(layer, experts) == [layer |-> layer, experts |-> experts]
One1(x) == Route(1, <<x>>)
MCTraces == {
    <<>>,
    <<Route(2, <<xc, xd, missing>>), Route(2, <<>>), Route(1, <<xa>>)>>,
    <<One1(xa), One1(xb), Route(2, <<xc>>), One1(xa), Route(2, <<xd>>)>>,
    <<One1(xa), One1(xb), Route(2, <<xc, xd>>), Route(1, <<xa, xb>>)>> }

MCPrompts == {<<1>>, <<1, 2>>}
=============================================================================
