--------------------------- MODULE FriendMessages ---------------------------
(***************************************************************************)
(* The messages of the friend service, as protoc has generated them        *)
(* (src/example/friend.pb.cc, friend.pb.h).  Its ResultCode is a class of  *)
(* the same name and content as that of the user service, and is called    *)
(* FriendResultCode here; the programs of the example use one of the two.  *)
(*                                                                         *)
(* Of _InternalParse a class has a switch of its own; the loop around it is*)
(* ParseLoop of Wire.                                                      *)
(***************************************************************************)
EXTENDS Wire

FriendResultCode == [type |-> "ResultCode", errcode |-> 0, errmsg |-> <<>>, unknown |-> <<>>]

FriendResultCode_Clear(m) == [m EXCEPT !.errmsg = <<>>, !.errcode = 0, !.unknown = <<>>]

FriendResultCode_InternalParse ==
    [tag \in {8, 18} |->
        CASE tag = 8 -> AsNumber("errcode")
          [] tag = 18 -> AsBytes("errmsg")]

FriendResultCode_InternalSerialize(m) ==
    When(m.errcode # 0, WriteInt32(1, m.errcode))
    \o When(Len(m.errmsg) > 0, WriteBytes(2, m.errmsg))
    \o m.unknown

(* What messages of the class may hold.                                    *)
FriendResultCodes ==
    {m \in [type : {"ResultCode"}, errcode : Int32, errmsg : Strings,
            unknown : Strange(FriendResultCode_InternalParse)] :
        Len(FriendResultCode_InternalSerialize(m)) \in Int31}

FriendResultCode_ByteSizeLong(m) ==
    SizeWhen(Len(m.errmsg) > 0, 1 + BytesSize(m.errmsg))
    + SizeWhen(m.errcode # 0, 1 + Int32Size(m.errcode))
    + Len(m.unknown)

FriendResultCode_MergeFrom(m, from) ==
    [m EXCEPT !.unknown = @ \o from.unknown,
              !.errmsg = IF Len(from.errmsg) > 0 THEN from.errmsg ELSE @,
              !.errcode = IF from.errcode # 0 THEN from.errcode ELSE @]

FriendResultCode_CopyFrom(m, from) == FriendResultCode_MergeFrom(FriendResultCode_Clear(m), from)

-----------------------------------------------------------------------------
GetFriendListRequest == [type |-> "GetFriendListRequest", userid |-> 0, unknown |-> <<>>]

GetFriendListRequest_Clear(m) == [m EXCEPT !.userid = 0, !.unknown = <<>>]

GetFriendListRequest_InternalParse ==
    [tag \in {8} |-> AsNumber("userid")]

GetFriendListRequest_InternalSerialize(m) ==
    When(m.userid # 0, WriteUInt32(1, m.userid)) \o m.unknown

GetFriendListRequests ==
    [type : {"GetFriendListRequest"}, userid : Int32, unknown : Strange(GetFriendListRequest_InternalParse)]

GetFriendListRequest_ByteSizeLong(m) ==
    SizeWhen(m.userid # 0, 1 + VarintSize(m.userid)) + Len(m.unknown)

GetFriendListRequest_MergeFrom(m, from) ==
    [m EXCEPT !.unknown = @ \o from.unknown,
              !.userid = IF from.userid # 0 THEN from.userid ELSE @]

GetFriendListRequest_CopyFrom(m, from) ==
    GetFriendListRequest_MergeFrom(GetFriendListRequest_Clear(m), from)

-----------------------------------------------------------------------------
GetFriendListResponse ==
    [type |-> "GetFriendListResponse", result |-> <<>>, friends |-> <<>>, unknown |-> <<>>]

(* mutable_result() makes the ResultCode that is not there yet; result()   *)
(* answers the default instance for it.                                    *)
GetFriendListResponse_mutable_result(m) ==
    IF m.result = <<>> THEN [m EXCEPT !.result = <<FriendResultCode>>] ELSE m

GetFriendListResponse_result(m) == IF m.result = <<>> THEN FriendResultCode ELSE m.result[1]

GetFriendListResponse_add_friends(m, friend) == [m EXCEPT !.friends = Append(@, friend)]

GetFriendListResponse_Clear(m) == [m EXCEPT !.friends = <<>>, !.result = <<>>, !.unknown = <<>>]

GetFriendListResponse_InternalParse ==
    [tag \in {10, 18} |->
        CASE tag = 10 -> AsMessage("result", FriendResultCode, FriendResultCode_InternalParse)
          [] tag = 18 -> AddBytes("friends")]

GetFriendListResponse_InternalSerialize(m) ==
    LET written[i \in 0..Len(m.friends)] ==
            IF i = 0 THEN <<>> ELSE written[i - 1] \o WriteBytes(2, m.friends[i])
    IN When(m.result # <<>>, WriteMessage(1, FriendResultCode_ByteSizeLong(GetFriendListResponse_result(m)),
                                            FriendResultCode_InternalSerialize(GetFriendListResponse_result(m))))
       \o written[Len(m.friends)]
       \o m.unknown

(* A pointer to a ResultCode.                                              *)
FriendResults == {p \in Seq(FriendResultCodes) : Len(p) <= 1}

GetFriendListResponses ==
    [type : {"GetFriendListResponse"}, result : FriendResults, friends : Seq(Strings),
     unknown : Strange(GetFriendListResponse_InternalParse)]

GetFriendListResponse_ByteSizeLong(m) ==
    LET sizes[i \in 0..Len(m.friends)] == IF i = 0 THEN 0 ELSE sizes[i - 1] + BytesSize(m.friends[i])
        size == FriendResultCode_ByteSizeLong(GetFriendListResponse_result(m))
    IN Len(m.friends) + sizes[Len(m.friends)]
       + SizeWhen(m.result # <<>>, 1 + VarintSize(size) + size)
       + Len(m.unknown)

GetFriendListResponse_MergeFrom(m, from) ==
    [m EXCEPT !.unknown = @ \o from.unknown,
              !.friends = @ \o from.friends,
              !.result = IF from.result = <<>> THEN @
                         ELSE <<FriendResultCode_MergeFrom(GetFriendListResponse_result(m), from.result[1])>>]

GetFriendListResponse_CopyFrom(m, from) ==
    GetFriendListResponse_MergeFrom(GetFriendListResponse_Clear(m), from)

-----------------------------------------------------------------------------
(* The service.  Names are cut to their first letter.                      *)
FriendServiceRpc ==
    [name |-> <<70>>, method |-> <<[service |-> <<70>>, name |-> <<71>>, index |-> 0]>>]

FriendServiceRpc_GetRequestPrototype(method) == CASE method.index = 0 -> GetFriendListRequest

FriendServiceRpc_GetResponsePrototype(method) == CASE method.index = 0 -> GetFriendListResponse

(* The switch: afterGetFriendList is what the virtual function makes of    *)
(* the response.                                                           *)
FriendServiceRpc_CallMethod(method, afterGetFriendList) ==
    CASE method.index = 0 -> afterGetFriendList

(* The method that the function of the stub asks its channel for.          *)
FriendServiceRpc_Stub_GetFriendList == FriendServiceRpc.method[1]

=============================================================================
