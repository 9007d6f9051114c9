------------------------------ MODULE Messages ------------------------------
(***************************************************************************)
(* google::protobuf::Message: what the framework does with messages whose  *)
(* class it does not know.  The virtual functions go to the class that the *)
(* type of the message names; the others are the library's.                *)
(***************************************************************************)
EXTENDS RpcHeader, UserMessages, FriendMessages

Clear(m) ==
    CASE m.type = "RpcHeader" -> RpcHeader_Clear(m)
      [] m.type = "ResultCode" -> ResultCode_Clear(m)
      [] m.type = "LoginRequest" -> LoginRequest_Clear(m)
      [] m.type = "LoginResponse" -> LoginResponse_Clear(m)
      [] m.type = "RegisterRequest" -> RegisterRequest_Clear(m)
      [] m.type = "RegisterResponse" -> RegisterResponse_Clear(m)
      [] m.type = "GetFriendListRequest" -> GetFriendListRequest_Clear(m)
      [] m.type = "GetFriendListResponse" -> GetFriendListResponse_Clear(m)

(* The switch of the class; the loop around it is the same in all of them. *)
InternalParse(m) ==
    CASE m.type = "RpcHeader" -> RpcHeader_InternalParse
      [] m.type = "ResultCode" -> ResultCode_InternalParse
      [] m.type = "LoginRequest" -> LoginRequest_InternalParse
      [] m.type = "LoginResponse" -> LoginResponse_InternalParse
      [] m.type = "RegisterRequest" -> RegisterRequest_InternalParse
      [] m.type = "RegisterResponse" -> RegisterResponse_InternalParse
      [] m.type = "GetFriendListRequest" -> GetFriendListRequest_InternalParse
      [] m.type = "GetFriendListResponse" -> GetFriendListResponse_InternalParse

SerializeToString(m) ==
    CASE m.type = "RpcHeader" -> RpcHeader_InternalSerialize(m)
      [] m.type = "ResultCode" -> ResultCode_InternalSerialize(m)
      [] m.type = "LoginRequest" -> LoginRequest_InternalSerialize(m)
      [] m.type = "LoginResponse" -> LoginResponse_InternalSerialize(m)
      [] m.type = "RegisterRequest" -> RegisterRequest_InternalSerialize(m)
      [] m.type = "RegisterResponse" -> RegisterResponse_InternalSerialize(m)
      [] m.type = "GetFriendListRequest" -> GetFriendListRequest_InternalSerialize(m)
      [] m.type = "GetFriendListResponse" -> GetFriendListResponse_InternalSerialize(m)

ByteSizeLong(m) ==
    CASE m.type = "RpcHeader" -> RpcHeader_ByteSizeLong(m)
      [] m.type = "ResultCode" -> ResultCode_ByteSizeLong(m)
      [] m.type = "LoginRequest" -> LoginRequest_ByteSizeLong(m)
      [] m.type = "LoginResponse" -> LoginResponse_ByteSizeLong(m)
      [] m.type = "RegisterRequest" -> RegisterRequest_ByteSizeLong(m)
      [] m.type = "RegisterResponse" -> RegisterResponse_ByteSizeLong(m)
      [] m.type = "GetFriendListRequest" -> GetFriendListRequest_ByteSizeLong(m)
      [] m.type = "GetFriendListResponse" -> GetFriendListResponse_ByteSizeLong(m)

MergeFrom(m, from) ==
    CASE m.type = "RpcHeader" -> RpcHeader_MergeFrom(m, from)
      [] m.type = "ResultCode" -> ResultCode_MergeFrom(m, from)
      [] m.type = "LoginRequest" -> LoginRequest_MergeFrom(m, from)
      [] m.type = "LoginResponse" -> LoginResponse_MergeFrom(m, from)
      [] m.type = "RegisterRequest" -> RegisterRequest_MergeFrom(m, from)
      [] m.type = "RegisterResponse" -> RegisterResponse_MergeFrom(m, from)
      [] m.type = "GetFriendListRequest" -> GetFriendListRequest_MergeFrom(m, from)
      [] m.type = "GetFriendListResponse" -> GetFriendListResponse_MergeFrom(m, from)

CopyFrom(m, from) ==
    CASE m.type = "RpcHeader" -> RpcHeader_CopyFrom(m, from)
      [] m.type = "ResultCode" -> ResultCode_CopyFrom(m, from)
      [] m.type = "LoginRequest" -> LoginRequest_CopyFrom(m, from)
      [] m.type = "LoginResponse" -> LoginResponse_CopyFrom(m, from)
      [] m.type = "RegisterRequest" -> RegisterRequest_CopyFrom(m, from)
      [] m.type = "RegisterResponse" -> RegisterResponse_CopyFrom(m, from)
      [] m.type = "GetFriendListRequest" -> GetFriendListRequest_CopyFrom(m, from)
      [] m.type = "GetFriendListResponse" -> GetFriendListResponse_CopyFrom(m, from)

(* What messages may hold.                                                 *)
AnyMessage ==
    RpcHeaders \union ResultCodes \union LoginRequests \union LoginResponses
    \union RegisterRequests \union RegisterResponses
    \union GetFriendListRequests \union GetFriendListResponses

(* Whatever m holds is cleared first.  The answer has ok and msg.          *)
ParseFromString(m, s) == ParseLoop(InternalParse(m), Clear(m), s)

=============================================================================
