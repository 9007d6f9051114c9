---------------------------- MODULE UserMessages ----------------------------
(***************************************************************************)
(* The messages of the user service and the dispatch in its service class, *)
(* as protoc has generated them (src/example/user.pb.cc, user.pb.h).       *)
(*                                                                         *)
(* Of _InternalParse a class has a switch of its own; the loop around it is*)
(* ParseLoop of Wire.                                                      *)
(***************************************************************************)
EXTENDS Wire

ResultCode == [type |-> "ResultCode", errcode |-> 0, errmsg |-> <<>>, unknown |-> <<>>]

ResultCode_Clear(m) == [m EXCEPT !.errmsg = <<>>, !.errcode = 0, !.unknown = <<>>]

ResultCode_InternalParse ==
    [tag \in {8, 18} |->
        CASE tag = 8 -> AsNumber("errcode")
          [] tag = 18 -> AsBytes("errmsg")]

ResultCode_InternalSerialize(m) ==
    When(m.errcode # 0, WriteInt32(1, m.errcode))
    \o When(Len(m.errmsg) > 0, WriteBytes(2, m.errmsg))
    \o m.unknown

(* What messages of the class may hold.                                    *)
ResultCodes ==
    {m \in [type : {"ResultCode"}, errcode : Int32, errmsg : Strings,
            unknown : Strange(ResultCode_InternalParse)] :
        Len(ResultCode_InternalSerialize(m)) \in Int31}

ResultCode_ByteSizeLong(m) ==
    SizeWhen(Len(m.errmsg) > 0, 1 + BytesSize(m.errmsg))
    + SizeWhen(m.errcode # 0, 1 + Int32Size(m.errcode))
    + Len(m.unknown)

ResultCode_MergeFrom(m, from) ==
    [m EXCEPT !.unknown = @ \o from.unknown,
              !.errmsg = IF Len(from.errmsg) > 0 THEN from.errmsg ELSE @,
              !.errcode = IF from.errcode # 0 THEN from.errcode ELSE @]

ResultCode_CopyFrom(m, from) == ResultCode_MergeFrom(ResultCode_Clear(m), from)

-----------------------------------------------------------------------------
LoginRequest == [type |-> "LoginRequest", name |-> <<>>, pwd |-> <<>>, unknown |-> <<>>]

LoginRequest_Clear(m) == [m EXCEPT !.name = <<>>, !.pwd = <<>>, !.unknown = <<>>]

LoginRequest_InternalParse ==
    [tag \in {10, 18} |->
        CASE tag = 10 -> AsBytes("name")
          [] tag = 18 -> AsBytes("pwd")]

LoginRequest_InternalSerialize(m) ==
    When(Len(m.name) > 0, WriteBytes(1, m.name))
    \o When(Len(m.pwd) > 0, WriteBytes(2, m.pwd))
    \o m.unknown

LoginRequests ==
    [type : {"LoginRequest"}, name : Strings, pwd : Strings, unknown : Strange(LoginRequest_InternalParse)]

LoginRequest_ByteSizeLong(m) ==
    SizeWhen(Len(m.name) > 0, 1 + BytesSize(m.name))
    + SizeWhen(Len(m.pwd) > 0, 1 + BytesSize(m.pwd))
    + Len(m.unknown)

LoginRequest_MergeFrom(m, from) ==
    [m EXCEPT !.unknown = @ \o from.unknown,
              !.name = IF Len(from.name) > 0 THEN from.name ELSE @,
              !.pwd = IF Len(from.pwd) > 0 THEN from.pwd ELSE @]

LoginRequest_CopyFrom(m, from) == LoginRequest_MergeFrom(LoginRequest_Clear(m), from)

-----------------------------------------------------------------------------
LoginResponse == [type |-> "LoginResponse", result |-> <<>>, success |-> FALSE, unknown |-> <<>>]

(* mutable_result() makes the ResultCode that is not there yet; result()   *)
(* answers the default instance for it.                                    *)
LoginResponse_mutable_result(m) ==
    IF m.result = <<>> THEN [m EXCEPT !.result = <<ResultCode>>] ELSE m

LoginResponse_result(m) == IF m.result = <<>> THEN ResultCode ELSE m.result[1]

LoginResponse_Clear(m) == [m EXCEPT !.result = <<>>, !.success = FALSE, !.unknown = <<>>]

LoginResponse_InternalParse ==
    [tag \in {10, 16} |->
        CASE tag = 10 -> AsMessage("result", ResultCode, ResultCode_InternalParse)
          [] tag = 16 -> AsBool("success")]

LoginResponse_InternalSerialize(m) ==
    When(m.result # <<>>, WriteMessage(1, ResultCode_ByteSizeLong(LoginResponse_result(m)),
                                       ResultCode_InternalSerialize(LoginResponse_result(m))))
    \o When(m.success, WriteBool(2, m.success))
    \o m.unknown

(* A pointer to a ResultCode.                                              *)
Results == {p \in Seq(ResultCodes) : Len(p) <= 1}

LoginResponses ==
    [type : {"LoginResponse"}, result : Results, success : BOOLEAN,
     unknown : Strange(LoginResponse_InternalParse)]

LoginResponse_ByteSizeLong(m) ==
    LET size == ResultCode_ByteSizeLong(LoginResponse_result(m))
    IN SizeWhen(m.result # <<>>, 1 + VarintSize(size) + size) + SizeWhen(m.success, 1 + 1)
       + Len(m.unknown)

(* (The faulty variant takes the other result in place of its own.)        *)
LoginResponse_Overwrite(m, from) ==
    [m EXCEPT !.unknown = @ \o from.unknown,
              !.result = IF from.result = <<>> THEN @ ELSE from.result,
              !.success = IF from.success THEN from.success ELSE @]

LoginResponse_MergeFrom(m, from) ==
    [m EXCEPT !.unknown = @ \o from.unknown,
              !.result = IF from.result = <<>> THEN @
                         ELSE <<ResultCode_MergeFrom(LoginResponse_result(m), from.result[1])>>,
              !.success = IF from.success THEN from.success ELSE @]

LoginResponse_CopyFrom(m, from) == LoginResponse_MergeFrom(LoginResponse_Clear(m), from)

-----------------------------------------------------------------------------
RegisterRequest ==
    [type |-> "RegisterRequest", id |-> 0, name |-> <<>>, pwd |-> <<>>, unknown |-> <<>>]

RegisterRequest_Clear(m) ==
    [m EXCEPT !.name = <<>>, !.pwd = <<>>, !.id = 0, !.unknown = <<>>]

RegisterRequest_InternalParse ==
    [tag \in {8, 18, 26} |->
        CASE tag = 8 -> AsNumber("id")
          [] tag = 18 -> AsBytes("name")
          [] tag = 26 -> AsBytes("pwd")]

RegisterRequest_InternalSerialize(m) ==
    When(m.id # 0, WriteUInt32(1, m.id))
    \o When(Len(m.name) > 0, WriteBytes(2, m.name))
    \o When(Len(m.pwd) > 0, WriteBytes(3, m.pwd))
    \o m.unknown

RegisterRequests ==
    [type : {"RegisterRequest"}, id : Int32, name : Strings, pwd : Strings,
     unknown : Strange(RegisterRequest_InternalParse)]

RegisterRequest_ByteSizeLong(m) ==
    SizeWhen(Len(m.name) > 0, 1 + BytesSize(m.name))
    + SizeWhen(Len(m.pwd) > 0, 1 + BytesSize(m.pwd))
    + SizeWhen(m.id # 0, 1 + VarintSize(m.id))
    + Len(m.unknown)

RegisterRequest_MergeFrom(m, from) ==
    [m EXCEPT !.unknown = @ \o from.unknown,
              !.name = IF Len(from.name) > 0 THEN from.name ELSE @,
              !.pwd = IF Len(from.pwd) > 0 THEN from.pwd ELSE @,
              !.id = IF from.id # 0 THEN from.id ELSE @]

RegisterRequest_CopyFrom(m, from) == RegisterRequest_MergeFrom(RegisterRequest_Clear(m), from)

-----------------------------------------------------------------------------
RegisterResponse == [type |-> "RegisterResponse", result |-> <<>>, success |-> FALSE, unknown |-> <<>>]

RegisterResponse_mutable_result(m) ==
    IF m.result = <<>> THEN [m EXCEPT !.result = <<ResultCode>>] ELSE m

RegisterResponse_result(m) == IF m.result = <<>> THEN ResultCode ELSE m.result[1]

RegisterResponse_Clear(m) == [m EXCEPT !.result = <<>>, !.success = FALSE, !.unknown = <<>>]

RegisterResponse_InternalParse ==
    [tag \in {10, 16} |->
        CASE tag = 10 -> AsMessage("result", ResultCode, ResultCode_InternalParse)
          [] tag = 16 -> AsBool("success")]

RegisterResponse_InternalSerialize(m) ==
    When(m.result # <<>>, WriteMessage(1, ResultCode_ByteSizeLong(RegisterResponse_result(m)),
                                       ResultCode_InternalSerialize(RegisterResponse_result(m))))
    \o When(m.success, WriteBool(2, m.success))
    \o m.unknown

RegisterResponses ==
    [type : {"RegisterResponse"}, result : Results, success : BOOLEAN,
     unknown : Strange(RegisterResponse_InternalParse)]

RegisterResponse_ByteSizeLong(m) ==
    LET size == ResultCode_ByteSizeLong(RegisterResponse_result(m))
    IN SizeWhen(m.result # <<>>, 1 + VarintSize(size) + size) + SizeWhen(m.success, 1 + 1)
       + Len(m.unknown)

RegisterResponse_MergeFrom(m, from) ==
    [m EXCEPT !.unknown = @ \o from.unknown,
              !.result = IF from.result = <<>> THEN @
                         ELSE <<ResultCode_MergeFrom(RegisterResponse_result(m), from.result[1])>>,
              !.success = IF from.success THEN from.success ELSE @]

RegisterResponse_CopyFrom(m, from) == RegisterResponse_MergeFrom(RegisterResponse_Clear(m), from)

-----------------------------------------------------------------------------
(* The service.  Names are cut to their first letter.                      *)
UserServiceRpc ==
    [name |-> <<85>>,
     method |-> <<[service |-> <<85>>, name |-> <<76>>, index |-> 0],
                  [service |-> <<85>>, name |-> <<82>>, index |-> 1]>>]

UserServiceRpc_GetRequestPrototype(method) ==
    CASE method.index = 0 -> LoginRequest
      [] method.index = 1 -> RegisterRequest

UserServiceRpc_GetResponsePrototype(method) ==
    CASE method.index = 0 -> LoginResponse
      [] method.index = 1 -> RegisterResponse

(* The switch: which of the two virtual functions runs.  afterLogin and    *)
(* afterRegister are what either of them makes of the response.            *)
UserServiceRpc_CallMethod(method, afterLogin, afterRegister) ==
    CASE method.index = 0 -> afterLogin
      [] method.index = 1 -> afterRegister

(* The method that a function of the stub asks its channel for.            *)
UserServiceRpc_Stub_Login == UserServiceRpc.method[1]

UserServiceRpc_Stub_Register == UserServiceRpc.method[2]

=============================================================================
