CONSTANTS
    Nil = Nil
    Objects <- TheObjects
    Services = {"postgres"}
    MaxRelease = 2
SPECIFICATION Spec
INVARIANT TypeOK AdmissionIsStable ListsHaveNoDuplicates ReferencesResolve ImageFitsPersistence RunnerFollowsRelease SelectorsFindPods FrontsLeadSomewhere IngressServesCertificateAskedFor SameDatabase
CHECK_DEADLOCK FALSE
