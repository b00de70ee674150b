SPECIFICATION DeviceSpec
INVARIANT StartSuccessMeansRegistered
