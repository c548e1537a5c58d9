SPECIFICATION FairSpec
CONSTANTS
    p1 = p1
    p2 = p2
    None = None
    Pod <- Pods
    SkipExit = FALSE
    Faulty = {"renew", "freeze", "dies"}
    MaxFault = 1
    MaxTerm = 1
 
PROPERTIES Retires SomeoneLeads
