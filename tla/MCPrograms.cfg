SPECIFICATION Spec
CONSTANTS
    Connections = {1, 2}
    KeyIp <- MCKeyIp
    KeyPort <- MCKeyPort
    KernelPort = 50000
    Deployments <- MCDeployments
    DefaultCalls = 1
    Corpus <- MCCorpus
INVARIANTS TypeOK ServedAsSent EndToEnd AnsweredUnlessCut ObjectsFreed EndpointAgrees ReportTrue ConfigByRules CodecAgrees
