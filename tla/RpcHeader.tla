------------------------------ MODULE RpcHeader ------------------------------
(***************************************************************************)
(* The class RpcHeader, the first part of a request frame, as protoc has   *)
(* generated it (src/src/rpcheader.pb.cc).                                 *)
(*                                                                         *)
(* Of _InternalParse a class has a switch of its own; the loop around it is*)
(* ParseLoop of Wire.                                                      *)
(***************************************************************************)
EXTENDS Wire

RpcHeader == [type |-> "RpcHeader", servicename |-> <<>>, methodname |-> <<>>, argssize |-> 0,
              unknown |-> <<>>]

RpcHeader_Clear(m) ==
    [m EXCEPT !.servicename = <<>>, !.methodname = <<>>, !.argssize = 0, !.unknown = <<>>]

RpcHeader_InternalParse ==
    [tag \in {10, 18, 24} |->
        CASE tag = 10 -> AsBytes("servicename")
          [] tag = 18 -> AsBytes("methodname")
          [] tag = 24 -> AsNumber("argssize")]

RpcHeader_InternalSerialize(m) ==
    When(Len(m.servicename) > 0, WriteBytes(1, m.servicename))
    \o When(Len(m.methodname) > 0, WriteBytes(2, m.methodname))
    \o When(m.argssize # 0, WriteUInt32(3, m.argssize))
    \o m.unknown

(* What messages of the class may hold.                                    *)
RpcHeaders ==
    [type : {"RpcHeader"}, servicename : Strings, methodname : Strings, argssize : Int32,
     unknown : Strange(RpcHeader_InternalParse)]

RpcHeader_ByteSizeLong(m) ==
    SizeWhen(Len(m.servicename) > 0, 1 + BytesSize(m.servicename))
    + SizeWhen(Len(m.methodname) > 0, 1 + BytesSize(m.methodname))
    + SizeWhen(m.argssize # 0, 1 + VarintSize(m.argssize))
    + Len(m.unknown)

RpcHeader_MergeFrom(m, from) ==
    [m EXCEPT !.unknown = @ \o from.unknown,
              !.servicename = IF Len(from.servicename) > 0 THEN from.servicename ELSE @,
              !.methodname = IF Len(from.methodname) > 0 THEN from.methodname ELSE @,
              !.argssize = IF from.argssize # 0 THEN from.argssize ELSE @]

RpcHeader_CopyFrom(m, from) == RpcHeader_MergeFrom(RpcHeader_Clear(m), from)

=============================================================================
