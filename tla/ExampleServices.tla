--------------------------- MODULE ExampleServices ---------------------------
(***************************************************************************)
(* The services of the example (src/example/callee), and the virtual       *)
(* functions of google::protobuf::Service over them: the provider holds a  *)
(* service and does not know its class.  Each handler runs done once, at   *)
(* its end; what it has made of the response is its value here.            *)
(***************************************************************************)
EXTENDS Messages

Success(response) == [response EXCEPT !.result[1].errcode = 0, !.result[1].errmsg = <<>>]

UserService_Login(request, response) ==
    [Success(LoginResponse_mutable_result(response)) EXCEPT !.success = TRUE]

UserService_Register(request, response) ==
    [Success(RegisterResponse_mutable_result(response)) EXCEPT !.success = TRUE]

(* Names are cut to their first letter.                                    *)
FriendList(userid) == << <<113>>, <<104>>, <<97>> >>

FriendService_GetFriendList(request, response) ==
    LET friends == FriendList(request.userid)
        added[i \in 0..Len(friends)] ==
            IF i = 0 THEN Success(GetFriendListResponse_mutable_result(response))
            ELSE GetFriendListResponse_add_friends(added[i - 1], friends[i])
    IN added[Len(friends)]

IsUser(method) == method.service = UserServiceRpc.name

GetRequestPrototype(method) ==
    IF IsUser(method) THEN UserServiceRpc_GetRequestPrototype(method)
                      ELSE FriendServiceRpc_GetRequestPrototype(method)

GetResponsePrototype(method) ==
    IF IsUser(method) THEN UserServiceRpc_GetResponsePrototype(method)
                      ELSE FriendServiceRpc_GetResponsePrototype(method)

Service_CallMethod(method, request, response) ==
    IF IsUser(method)
    THEN UserServiceRpc_CallMethod(method, UserService_Login(request, response),
                                                UserService_Register(request, response))
    ELSE FriendServiceRpc_CallMethod(method, FriendService_GetFriendList(request, response))

=============================================================================
